---------------------------- MODULE Spec2Model ----------------------------
(***************************************************************************)
(* A model of frappe_whatsapp: the Notification Engine                     *)
(* (whatsapp_notification.py), the Template Manager                        *)
(* (whatsapp_templates.py) and the Webhook Receiver (utils/webhook.py).    *)
(*                                                                         *)
(* Text is modelled as a sequence of one-character strings, so that the    *)
(* string functions of the code (replace, strip, split, re.sub, findall,   *)
(* json.loads) are computed character by character as the code computes    *)
(* them.                                                                    *)
(***************************************************************************)
EXTENDS Integers, Sequences, FiniteSets, TLC

VARIABLES
    arg,                \* the arguments of the function under call
    ret,                \* what the call returned (Null before the call)
    pc,                 \* "start" before the call, "done" after it
    accounts,           \* the WhatsApp Account records, by name
    templates,          \* the WhatsApp Templates records, by name
    source_docs,        \* the documents notification rules refer to, by name
    whatsapp_messages,  \* the WhatsApp Message records, in order of creation
    notification_logs,  \* the WhatsApp Notification Log records, in order
    error_logs,         \* the titles frappe.log_error was called with, in order
    http,               \* the requests sent to the provider, in order
    calls               \* what each handler invocation did, in order

callVars == <<arg, ret, pc>>
dbVars == <<accounts, templates, source_docs, whatsapp_messages, notification_logs,
            error_logs>>
envVars == <<http, calls>>
vars == <<arg, ret, pc, accounts, templates, source_docs, whatsapp_messages,
          notification_logs, error_logs, http, calls>>

\* The database and the history before any handler has run, with no records.
InitEmptyDb ==
    /\ accounts = <<>>
    /\ templates = <<>>
    /\ source_docs = <<>>
    /\ whatsapp_messages = <<>>
    /\ notification_logs = <<>>
    /\ error_logs = <<>>
    /\ http = <<>>
    /\ calls = <<>>

Null == [kind |-> "Null"]

(***************************************************************************)
(* Bounds of the model.                                                    *)
(***************************************************************************)
MaxPieces == 4

(***************************************************************************)
(* Text helpers.                                                           *)
(***************************************************************************)
\* All sequences of length 0..n over S.
SeqUpTo(S, n) == UNION {[1..k -> S] : k \in 0..n}

RECURSIVE Concat(_)
\* The concatenation of a sequence of texts.
Concat(ps) == IF ps = <<>> THEN <<>> ELSE Head(ps) \o Concat(Tail(ps))

\* str.replace(old, new) for a one-character old.
RECURSIVE ReplaceChar(_, _, _)
ReplaceChar(s, old, new) ==
    IF s = <<>> THEN <<>>
    ELSE (IF Head(s) = old THEN new ELSE <<Head(s)>>) \o ReplaceChar(Tail(s), old, new)

\* The characters str.strip() removes (Python's whitespace) that the model uses.
Whitespace == {" ", "\n", "\r", "\t", "\f"}

\* str.strip()
Strip(s) ==
    LET RECURSIVE LStrip(_)
        LStrip(t) == IF t # <<>> /\ Head(t) \in Whitespace THEN LStrip(Tail(t)) ELSE t
        RECURSIVE RStrip(_)
        RStrip(t) ==
            IF t # <<>> /\ t[Len(t)] \in Whitespace
            THEN RStrip(SubSeq(t, 1, Len(t) - 1)) ELSE t
    IN  RStrip(LStrip(s))

\* The length of the run of character c that starts at the head of s.
RECURSIVE RunLen(_, _)
RunLen(s, c) == IF s # <<>> /\ Head(s) = c THEN 1 + RunLen(Tail(s), c) ELSE 0

Drop(s, n) == SubSeq(s, n + 1, Len(s))

\* str(n) of a natural number.
DigitChars == <<"0", "1", "2", "3", "4", "5", "6", "7", "8", "9">>

RECURSIVE IntToStr(_)
IntToStr(n) ==
    IF n < 10 THEN <<DigitChars[n + 1]>>
    ELSE IntToStr(n \div 10) \o <<DigitChars[(n % 10) + 1]>>

(***************************************************************************)
(* Python values passed to sanitize_whatsapp_param.                        *)
(***************************************************************************)
PyNone == [kind |-> "None"]
PyStr(s) == [kind |-> "str", s |-> s]
PyInt(n) == [kind |-> "int", n |-> n]

\* Values of a JSON payload: a short text (an id, a token, a keyword) kept
\* whole, a dict by its items, a list by its elements.  Texts that the code
\* takes apart or changes the case of are PyStr values.
WStr(t) == [kind |-> "text", t |-> t]
WDict(d) == [kind |-> "dict", d |-> d]
WList(l) == [kind |-> "list", l |-> l]

\* str(value)
PyToStr(v) ==
    CASE v.kind = "str" -> v.s
      [] v.kind = "int" -> IntToStr(v.n)
      [] OTHER -> <<"N", "o", "n", "e">>

(***************************************************************************)
(* whatsapp_notification.py: sanitize_whatsapp_param                       *)
(***************************************************************************)
\* The least run of spaces re.sub(r' {5,}', ...) replaces.
MinCollapsedRun == 5

\* A plausible slip: the pattern ' {6,}' instead of ' {5,}'.
RECURSIVE CollapseSpacesOffByOne(_)
CollapseSpacesOffByOne(s) ==
    IF s = <<>> THEN <<>>
    ELSE LET r == RunLen(s, " ")
         IN  IF r >= MinCollapsedRun + 1
             THEN <<" ", " ", " ", " ">> \o CollapseSpacesOffByOne(Drop(s, r))
             ELSE <<Head(s)>> \o CollapseSpacesOffByOne(Tail(s))

\* re.sub(r' {5,}', '    ', text): every maximal run of 5 or more spaces
\* becomes 4 spaces (the match is greedy, the scan goes left to right).
RECURSIVE CollapseSpaces(_)
CollapseSpaces(s) ==
    IF s = <<>> THEN <<>>
    ELSE LET r == RunLen(s, " ")
         IN  IF r >= MinCollapsedRun
             THEN <<" ", " ", " ", " ">> \o CollapseSpaces(Drop(s, r))
             ELSE <<Head(s)>> \o CollapseSpaces(Tail(s))

sanitize_whatsapp_param(value) ==
    IF value = PyNone \/ value = PyStr(<<>>) THEN <<"-">>
    ELSE LET t0 == PyToStr(value)
             t1 == ReplaceChar(ReplaceChar(ReplaceChar(t0, "\n", <<" ">>),
                                           "\r", <<" ">>), "\t", <<" ">>)
             t2 == CollapseSpaces(t1)
             t3 == Strip(t2)
         IN  IF t3 = <<>> THEN <<"-">> ELSE t3

(***************************************************************************)
(* SpecParam: sanitize_whatsapp_param called on one value.                 *)
(***************************************************************************)
\* The pieces parameter texts are made of: letters, every whitespace
\* character of the model, and a run of four spaces.
InitParam ==
    LET ParamPieces ==
            {<<"a">>, <<" ">>, <<"\n">>, <<"\r">>, <<"\t">>, <<"\f">>,
             <<" ", " ", " ", " ">>}
        ParamTexts == {Concat(ps) : ps \in SeqUpTo(ParamPieces, MaxPieces)}
        ParamValues == {PyNone} \cup {PyInt(n) : n \in {0, 7, 42, 1000}}
                           \cup {PyStr(s) : s \in ParamTexts}
    IN
    /\ InitEmptyDb
    /\ arg \in ParamValues
    /\ ret = Null
    /\ pc = "start"

CallSanitizeParam ==
    /\ pc = "start"
    /\ ret' = sanitize_whatsapp_param(arg)
    /\ pc' = "done"
    /\ UNCHANGED <<arg, dbVars, envVars>>

NextParam == CallSanitizeParam

SpecParam == InitParam /\ [][NextParam]_vars

\* Some run of n or more consecutive spaces occurs in s.
HasSpaceRun(s, n) ==
    \E i \in 1..(Len(s) - n + 1) : \A j \in i..(i + n - 1) : s[j] = " "

OnlyWhitespace(v) ==
    v.kind = "str" /\ \A i \in 1..Len(v.s) : v.s[i] \in Whitespace

\* C1: for every input value (None, the empty string, any string, a
\* non-string value), sanitize_whatsapp_param returns a non-empty string
\* without line feed, carriage return or tab and without a run of 5 or more
\* spaces; None, "" and whitespace-only input give exactly "-".
C1_SanitizedParam ==
    pc = "done" =>
        /\ ret # <<>>
        /\ \A i \in 1..Len(ret) : ret[i] \notin {"\n", "\r", "\t"}
        /\ ~HasSpaceRun(ret, 5)
        /\ (arg = PyNone \/ OnlyWhitespace(arg)) => ret = <<"-">>

\* A text whose line feed extends a run of four spaces to five has been
\* sanitized: the run is collapsed to four spaces.
C1_Witness ==
    /\ pc = "done"
    /\ arg = PyStr(<<"a", " ", " ", " ", " ", "\n", "a">>)
    /\ ret = <<"a", " ", " ", " ", " ", "a">>

(***************************************************************************)
(* whatsapp_templates.py: sanitize_template_name                           *)
(***************************************************************************)
LowerLetters == {"a", "b", "c", "d", "e", "f", "g", "h", "i", "j", "k", "l", "m",
                 "n", "o", "p", "q", "r", "s", "t", "u", "v", "w", "x", "y", "z"}
Digits == {"0", "1", "2", "3", "4", "5", "6", "7", "8", "9"}

\* str.lower(); the model's upper-case letters are A and B.
Lower(s) ==
    LET LowerChar(c) == CASE c = "A" -> "a" [] c = "B" -> "b" [] OTHER -> c
    IN  [i \in 1..Len(s) |-> LowerChar(s[i])]

\* The length of the run of characters of S that starts at the head of s.
RECURSIVE RunLenIn(_, _)
RunLenIn(s, S) == IF s # <<>> /\ Head(s) \in S THEN 1 + RunLenIn(Tail(s), S) ELSE 0

\* re.sub(r'[S]+', new, s): every maximal run of characters of S becomes new.
RECURSIVE SubRuns(_, _, _)
SubRuns(s, S, new) ==
    IF s = <<>> THEN <<>>
    ELSE LET r == RunLenIn(s, S)
         IN  IF r > 0 THEN new \o SubRuns(Drop(s, r), S, new)
             ELSE <<Head(s)>> \o SubRuns(Tail(s), S, new)

\* The length the fallback name keeps of the input's letters and digits.
FallbackSuffixLen == 20

sanitize_template_name(name) ==
    IF name = <<>> THEN <<>>
    ELSE LET \* The characters of the class [\s\-\.]
             NameSeparators == Whitespace \cup {"-", "."}
             \* re.sub(r'[^S]', '', s): only the characters of S are kept.
             KeepOnly(s, S) == SelectSeq(s, LAMBDA c : c \in S)
             \* str.strip(chars)
             RECURSIVE StripChars(_, _)
             StripChars(s, S) ==
                 IF s # <<>> /\ Head(s) \in S THEN StripChars(Tail(s), S)
                 ELSE IF s # <<>> /\ s[Len(s)] \in S
                      THEN StripChars(SubSeq(s, 1, Len(s) - 1), S)
                 ELSE s
             \* The slice s[:n]
             Prefix(s, n) == SubSeq(s, 1, IF Len(s) < n THEN Len(s) ELSE n)
             TemplatePrefix == <<"t", "e", "m", "p", "l", "a", "t", "e", "_">>
             s1 == Lower(name)
             s2 == SubRuns(s1, NameSeparators, <<"_">>)
             s3 == KeepOnly(s2, LowerLetters \cup Digits \cup {"_"})
             s4 == SubRuns(s3, {"_"}, <<"_">>)
             s5 == StripChars(s4, {"_"})
             s6 == IF s5 # <<>> /\ s5[1] \in Digits THEN <<"_">> \o s5 ELSE s5
         IN  IF s6 = <<>>
             THEN TemplatePrefix
                  \o Prefix(KeepOnly(Lower(name), LowerLetters \cup Digits),
                            FallbackSuffixLen)
             ELSE s6

\* re.match(r'^[a-z][a-z0-9_]*$', s), for s without a line feed.
MatchesTemplateName(s) ==
    /\ s # <<>>
    /\ s[1] \in LowerLetters
    /\ \A i \in 2..Len(s) : s[i] \in LowerLetters \cup Digits \cup {"_"}

(***************************************************************************)
(* SpecName: sanitize_template_name called on one name.                    *)
(***************************************************************************)
InitName ==
    /\ InitEmptyDb
    /\ arg \in SeqUpTo({"A", "a", "1", " ", "-", "_", "!"}, MaxPieces)
    /\ ret = Null
    /\ pc = "start"

CallSanitizeName ==
    /\ pc = "start"
    /\ ret' = sanitize_template_name(arg)
    /\ pc' = "done"
    /\ UNCHANGED <<arg, dbVars, envVars>>

NextName == CallSanitizeName

SpecName == InitName /\ [][NextName]_vars

\* C2: for any non-empty input name, the name sanitize_template_name
\* returns matches ^[a-z][a-z0-9_]*$.
C2_NameMatches ==
    (pc = "done" /\ arg # <<>>) => MatchesTemplateName(ret)

\* What the code guarantees instead: only lower-case letters, digits and
\* underscores, and a first character that is no digit (it may be "_").
C2_NameCharset ==
    (pc = "done" /\ arg # <<>>) =>
        /\ ret # <<>>
        /\ \A i \in 1..Len(ret) : ret[i] \in LowerLetters \cup Digits \cup {"_"}
        /\ ret[1] \notin Digits

(***************************************************************************)
(* whatsapp_templates.py: get_parameter_count                              *)
(***************************************************************************)
\* int(s) of a text of digits.
RECURSIVE StrToInt(_)
StrToInt(s) ==
    LET DigitValue(c) == CHOOSE d \in 0..9 : DigitChars[d + 1] = c
    IN  IF s = <<>> THEN 0
        ELSE 10 * StrToInt(SubSeq(s, 1, Len(s) - 1)) + DigitValue(s[Len(s)])

\* re.findall(r'\{\{(\d+)\}\}', s): the groups of the non-overlapping
\* matches, found left to right.
RECURSIVE FindPlaceholders(_)
FindPlaceholders(s) ==
    LET \* The length of the match at the head of s, 0 when there is none:
        \* two braces, the longest run of digits, two braces.
        PlaceholderAt ==
            IF Len(s) >= 2 /\ s[1] = "{" /\ s[2] = "{"
            THEN LET d == RunLenIn(Drop(s, 2), Digits)
                 IN  IF d > 0 /\ Len(s) >= d + 4 /\ s[d + 3] = "}" /\ s[d + 4] = "}"
                     THEN d + 4 ELSE 0
            ELSE 0
    IN  IF s = <<>> THEN <<>>
        ELSE LET n == PlaceholderAt
             IN  IF n > 0
                 THEN <<SubSeq(s, 3, n - 2)>> \o FindPlaceholders(Drop(s, n))
                 ELSE FindPlaceholders(Tail(s))

SetMax(S) == CHOOSE m \in S : \A x \in S : x <= m

\* A plausible slip: the number of placeholders instead of the largest one.
get_parameter_count_len(template) == Len(FindPlaceholders(template))

get_parameter_count(template) ==
    IF template = <<>> THEN 0
    ELSE LET matches == FindPlaceholders(template)
         IN  IF matches = <<>> THEN 0
             ELSE SetMax({StrToInt(matches[i]) : i \in 1..Len(matches)})

(***************************************************************************)
(* SpecCount: get_parameter_count called on one template body.             *)
(***************************************************************************)
InitCount ==
    /\ InitEmptyDb
    /\ LET BodyPieces ==
               {<<"{", "{", "1", "}", "}">>, <<"{", "{", "2", "}", "}">>,
                <<"{", "{">>, <<"}", "}">>, <<"{">>, <<"1">>, <<"0">>, <<"x">>}
       IN  arg \in {Concat(ps) : ps \in SeqUpTo(BodyPieces, MaxPieces)}
    /\ ret = Null
    /\ pc = "start"

CallParameterCount ==
    /\ pc = "start"
    /\ ret' = get_parameter_count(arg)
    /\ pc' = "done"
    /\ UNCHANGED <<arg, dbVars, envVars>>

NextCount == CallParameterCount

SpecCount == InitCount /\ [][NextCount]_vars

\* The numbers n for which {{n}} occurs somewhere in s.
PlaceholderNumbers(s) ==
    {StrToInt(SubSeq(s, i + 2, j - 2)) :
        <<i, j>> \in {p \in (1..Len(s)) \X (1..Len(s)) :
            /\ p[2] >= p[1] + 4
            /\ s[p[1]] = "{" /\ s[p[1] + 1] = "{"
            /\ s[p[2] - 1] = "}" /\ s[p[2]] = "}"
            /\ \A k \in (p[1] + 2)..(p[2] - 2) : s[k] \in Digits}}

\* C3: get_parameter_count returns the largest n that occurs in a {{n}}
\* placeholder of the body, whatever the order, repetition or gaps, and 0
\* when the body is empty or has no placeholder.
C3_ParameterCountIsMax ==
    pc = "done" =>
        ret = (IF PlaceholderNumbers(arg) = {} THEN 0
               ELSE SetMax(PlaceholderNumbers(arg)))

\* A body whose placeholders are repeated and out of order has been counted.
C3_Witness ==
    /\ pc = "done"
    /\ arg = Concat(<<<<"{", "{", "2", "}", "}">>, <<"{", "{", "1", "}", "}">>,
                      <<"x">>, <<"{", "{", "2", "}", "}">>>>)
    /\ ret = 2

(***************************************************************************)
(* json.dumps and json.loads, on the characters of the model.  Over these  *)
(* characters a JSON value is a string or an array: no number, literal or  *)
(* object can be written with them.                                        *)
(***************************************************************************)
JStr(t) == [t |-> "str", s |-> t]
JList(items) == [t |-> "list", items |-> items]

\* sep.join(texts)
RECURSIVE Join(_, _)
Join(texts, sep) ==
    IF texts = <<>> THEN <<>>
    ELSE IF Len(texts) = 1 THEN texts[1]
    ELSE texts[1] \o sep \o Join(Tail(texts), sep)

\* json.dumps(L) of a list of strings: ["e1", "e2"].
json_dumps(L) ==
    LET \* The body of a JSON string: a quote and a backslash are escaped.
        RECURSIVE JsonEscape(_)
        JsonEscape(t) ==
            IF t = <<>> THEN <<>>
            ELSE (IF Head(t) \in {"\"", "\\"} THEN <<"\\", Head(t)>>
                  ELSE <<Head(t)>>)
                 \o JsonEscape(Tail(t))
    IN  <<"[">>
        \o Join([i \in 1..Len(L) |-> <<"\"">> \o JsonEscape(L[i]) \o <<"\"">>],
                <<",", " ">>)
        \o <<"]">>

\* The first index at or after i that holds no JSON whitespace.
RECURSIVE SkipWs(_, _)
SkipWs(s, i) ==
    IF i <= Len(s) /\ s[i] \in {" ", "\n", "\r", "\t"} THEN SkipWs(s, i + 1) ELSE i

JFail == [ok |-> FALSE]
JOk(v, next) == [ok |-> TRUE, v |-> v, next |-> next]

\* The JSON string whose opening quote is before index i; acc is what has
\* been read of it.  An escape other than \" and \\ and a missing closing
\* quote are errors.
RECURSIVE ParseJsonString(_, _, _)
ParseJsonString(s, i, acc) ==
    IF i > Len(s) THEN JFail
    ELSE IF s[i] = "\"" THEN JOk(JStr(acc), i + 1)
    ELSE IF s[i] = "\\"
         THEN IF i + 1 <= Len(s) /\ s[i + 1] \in {"\"", "\\"}
              THEN ParseJsonString(s, i + 2, Append(acc, s[i + 1]))
              ELSE JFail
    ELSE ParseJsonString(s, i + 1, Append(acc, s[i]))

RECURSIVE ParseJsonValue(_, _)
RECURSIVE ParseJsonItems(_, _, _)

\* The JSON value that starts at index i.
ParseJsonValue(s, i) ==
    IF i > Len(s) THEN JFail
    ELSE IF s[i] = "\"" THEN ParseJsonString(s, i + 1, <<>>)
    ELSE IF s[i] = "["
         THEN LET j == SkipWs(s, i + 1)
              IN  IF j <= Len(s) /\ s[j] = "]" THEN JOk(JList(<<>>), j + 1)
                  ELSE ParseJsonItems(s, j, <<>>)
    ELSE JFail

\* The items of an array from index i (an item is due there) to its "]".
ParseJsonItems(s, i, acc) ==
    LET r == ParseJsonValue(s, i)
    IN  IF ~r.ok THEN JFail
        ELSE LET j == SkipWs(s, r.next)
             IN  IF j > Len(s) THEN JFail
                 ELSE IF s[j] = "]" THEN JOk(JList(Append(acc, r.v)), j + 1)
                 ELSE IF s[j] = ","
                      THEN ParseJsonItems(s, SkipWs(s, j + 1), Append(acc, r.v))
                 ELSE JFail

\* json.loads(s): one value, with whitespace around it and nothing else.
json_loads(s) ==
    LET r == ParseJsonValue(s, SkipWs(s, 1))
    IN  IF r.ok /\ SkipWs(s, r.next) > Len(s) THEN r ELSE JFail

\* repr() of a parsed value: a string in single quotes with its backslashes
\* doubled (the model has no single quote), a list as [r1, r2].
RECURSIVE PyRepr(_)
PyRepr(v) ==
    IF v.t = "str"
    THEN <<"'">> \o ReplaceChar(v.s, "\\", <<"\\", "\\">>) \o <<"'">>
    ELSE <<"[">>
         \o Join([i \in 1..Len(v.items) |-> PyRepr(v.items[i])], <<",", " ">>)
         \o <<"]">>

\* str() of a parsed value.
JsonToStr(v) == IF v.t = "str" THEN v.s ELSE PyRepr(v)

(***************************************************************************)
(* whatsapp_templates.py: _parse_sample_values                             *)
(***************************************************************************)
\* str.split(sep) for a one-character sep: the pieces between the
\* separators, empty ones included.
Split(s, sep) ==
    LET RECURSIVE SplitFrom(_, _)
        SplitFrom(rest, cur) ==
            IF rest = <<>> THEN <<cur>>
            ELSE IF Head(rest) = sep THEN <<cur>> \o SplitFrom(Tail(rest), <<>>)
            ELSE SplitFrom(Tail(rest), Append(cur, Head(rest)))
    IN  SplitFrom(s, <<>>)

Contains(s, c) == \E i \in 1..Len(s) : s[i] = c

\* [t.strip() for t in texts if t.strip()]
StrippedNonEmpty(texts) ==
    SelectSeq([i \in 1..Len(texts) |-> Strip(texts[i])], LAMBDA t : t # <<>>)

\* A plausible slip: the elements of the JSON array taken as they are.
JsonElementsRaw(parsed) == [i \in 1..Len(parsed.items) |-> JsonToStr(parsed.items[i])]

\* [str(v).strip() for v in parsed if str(v).strip()]
JsonElements(parsed) ==
    StrippedNonEmpty([i \in 1..Len(parsed.items) |-> JsonToStr(parsed.items[i])])

\* A plausible slip: the pipe split returned whatever expected_count is.
PipeAcceptedAlways(sample_list, expected_count) == TRUE

\* expected_count is None or len(sample_list) == expected_count
PipeAccepted(sample_list, expected_count) ==
    expected_count = PyNone \/ Len(sample_list) = expected_count.n

_parse_sample_values(sample_values_str, expected_count) ==
    IF sample_values_str = <<>> \/ Strip(sample_values_str) = <<>> THEN <<>>
    ELSE LET str == Strip(sample_values_str)
             parsed == IF str[1] = "[" /\ str[Len(str)] = "]"
                       THEN json_loads(str) ELSE JFail
             pipes == StrippedNonEmpty(Split(str, "|"))
             commas == StrippedNonEmpty(Split(str, ","))
         IN  IF parsed.ok /\ parsed.v.t = "list" THEN JsonElements(parsed.v)
             ELSE IF Contains(str, "|") /\ PipeAccepted(pipes, expected_count)
                  THEN pipes
             ELSE commas

(***************************************************************************)
(* SpecParse: _parse_sample_values called on one text, which is either     *)
(* written by hand or the json.dumps encoding of a list of strings.        *)
(***************************************************************************)
InitParse ==
    /\ InitEmptyDb
    /\ LET SamplePieces ==
               {<<"a">>, <<" ">>, <<",">>, <<"|">>, <<"[">>, <<"]">>, <<"\"">>,
                <<"\"", "a", "\"">>}
           SampleTexts == {Concat(ps) : ps \in SeqUpTo(SamplePieces, MaxPieces)}
           \* The characters of the elements of an encoded list; ";" ends an
           \* element.
           ElementChars == {"a", " ", ",", "|", "\"", "\\"}
           \* The lists of strings whose characters and elements number
           \* MaxPieces at most.
           SampleLists ==
               {<<>>} \cup {Split(t, ";") :
                               t \in SeqUpTo(ElementChars \cup {";"}, MaxPieces - 1)}
           ExpectedCounts == {PyNone} \cup {PyInt(n) : n \in 1..3}
       IN  \/ \E t \in SampleTexts, e \in ExpectedCounts :
                arg = [from_list |-> FALSE, list |-> <<>>,
                       sample_values_str |-> t, expected_count |-> e]
           \/ \E L \in SampleLists, e \in ExpectedCounts :
                arg = [from_list |-> TRUE, list |-> L,
                       sample_values_str |-> json_dumps(L), expected_count |-> e]
    /\ ret = Null
    /\ pc = "start"

CallParseSampleValues ==
    /\ pc = "start"
    /\ ret' = _parse_sample_values(arg.sample_values_str, arg.expected_count)
    /\ pc' = "done"
    /\ UNCHANGED <<arg, dbVars, envVars>>

NextParse == CallParseSampleValues

SpecParse == InitParse /\ [][NextParse]_vars

\* The text is a JSON array (after strip(), as the parser reads it).
IsJsonArray(t) ==
    LET r == json_loads(Strip(t)) IN r.ok /\ r.v.t = "list"

\* The original C4: parsing the JSON-array encoding of a list L of strings
\* returns L itself, for any expected_count.
C4_RoundTripExact ==
    (pc = "done" /\ arg.from_list) => ret = arg.list

\* C4 (amended): parsing the JSON-array encoding of a list L of strings
\* returns, in order, the elements of L with their surrounding whitespace
\* stripped and without those that are empty after stripping, for any
\* expected_count; so L itself when no element is empty or has whitespace at
\* an end.
C4_RoundTripStripped ==
    (pc = "done" /\ arg.from_list) =>
        /\ ret = StrippedNonEmpty(arg.list)
        /\ (\A i \in 1..Len(arg.list) :
                arg.list[i] # <<>> /\ Strip(arg.list[i]) = arg.list[i])
           => ret = arg.list

\* A list whose elements are a quote (escaped in the encoding) and a comma
\* has been encoded and has come back unchanged.
C4_Witness ==
    /\ pc = "done"
    /\ arg.from_list
    /\ arg.list = <<<<"\"">>, <<",">>>>
    /\ arg.sample_values_str = <<"[", "\"", "\\", "\"", "\"", ",", " ", "\"", ",", "\"", "]">>
    /\ ret = arg.list

\* The pieces of t between pipes (resp. commas), stripped, the empty ones dropped.
PipePieces(t) == StrippedNonEmpty(Split(Strip(t), "|"))
CommaPieces(t) == StrippedNonEmpty(Split(Strip(t), ","))

\* The original C5: on input that is no JSON array and contains "|" the
\* result is the pieces between the pipes, for every expected_count (and so
\* the comma split only serves input without "|").
C5_PipeSplitAlways ==
    (pc = "done" /\ ~IsJsonArray(arg.sample_values_str)
        /\ Contains(arg.sample_values_str, "|"))
    => ret = PipePieces(arg.sample_values_str)

\* C5 (amended): on input that is no JSON array and contains "|" the result
\* is the stripped non-empty pieces between the pipes when expected_count is
\* None or equals their number; when expected_count is another number the
\* result is the stripped non-empty pieces between the commas.  Input that
\* is no JSON array and has no "|" always gets the comma split.
C5_PipeSplitWhenCountFits ==
    (pc = "done" /\ ~IsJsonArray(arg.sample_values_str)) =>
        LET t == arg.sample_values_str
            e == arg.expected_count
        IN  IF Contains(t, "|") /\ (e = PyNone \/ e.n = Len(PipePieces(t)))
            THEN ret = PipePieces(t)
            ELSE ret = CommaPieces(t)

\* A text with two pipes and a comma has been parsed with expected_count 2:
\* the three pipe pieces do not fit and the comma split is returned.
C5_Witness ==
    /\ pc = "done"
    /\ arg.sample_values_str = <<"a", "|", ",", "|">>
    /\ arg.expected_count = PyInt(1)
    /\ ret = <<<<"a", "|">>, <<"|">>>>

\* A text with a pipe has been parsed with the expected_count that fits.
C5_WitnessPipe ==
    /\ pc = "done"
    /\ arg.sample_values_str = <<"a", ",", "|", "a">>
    /\ arg.expected_count = PyInt(2)
    /\ ret = <<<<"a", ",">>, <<"a">>>>

(***************************************************************************)
(* whatsapp_notification.py: the Notification Engine.                      *)
(*                                                                         *)
(* A handler is computed as an effect: the exception it ends with ("" when *)
(* it returns), and what it wrote on the way, in order.  The action of the *)
(* handler applies the effect to the database.                             *)
(***************************************************************************)
\* bool(v) of a Python value.
Truthy(v) ==
    CASE v.kind = "None" -> FALSE
      [] v.kind = "str" -> v.s # <<>>
      [] v.kind = "int" -> v.n # 0
      [] v.kind = "text" -> v.t # ""
      [] v.kind = "dict" -> DOMAIN v.d # {}
      [] v.kind = "list" -> v.l # <<>>
      [] OTHER -> TRUE

NoEffect ==
    [applies |-> FALSE, stage |-> "skipped", raised |-> "", errors |-> <<>>,
     posts |-> <<>>, answers |-> <<>>, msgs |-> <<>>, logs |-> <<>>, sets |-> <<>>]

\* header_type.lower() for the header types of a template.
HeaderTypeLower(header_type) ==
    CASE header_type = "TEXT" -> "text"
      [] header_type = "DOCUMENT" -> "document"
      [] header_type = "IMAGE" -> "image"
      [] OTHER -> header_type

\* The effect of ending at `stage` with exception `exc` before any request.
EndedAt(stage, exc, errors) ==
    [NoEffect EXCEPT !.applies = TRUE, !.stage = stage, !.raised = exc,
                     !.errors = errors]

\* format_number: a leading "+" is dropped.
format_number(number) ==
    IF number # <<>> /\ number[1] = "+" THEN Tail(number) ELSE number

\* get_value_from_path: the value at a dotted path (given as its parts),
\* following Link fields to the documents they name.
get_value_from_path(doc, path) ==
    LET RECURSIVE ValueAtPath(_, _)
        ValueAtPath(value, parts) ==
            IF parts = <<>> THEN value
            ELSE IF value = PyNone THEN PyNone
            ELSE IF value.kind = "doc"
                 THEN IF Head(parts) \in DOMAIN value.fields
                      THEN LET link_value == value.fields[Head(parts)]
                           IN  IF /\ link_value.kind = "link"
                                  /\ link_value.to \in DOMAIN source_docs
                               THEN ValueAtPath(source_docs[link_value.to], Tail(parts))
                               ELSE IF link_value.kind = "link"
                                    THEN ValueAtPath(PyStr(link_value.text), Tail(parts))
                                    ELSE ValueAtPath(link_value, Tail(parts))
                      ELSE PyNone
            ELSE PyNone
    IN  IF path = <<>> THEN PyNone ELSE ValueAtPath(doc, path)

\* get_whatsapp_account(account_type='outgoing'): the name of the default
\* outgoing account, "" (None) when there is none.
DefaultOutgoingAccount ==
    IF \E a \in DOMAIN accounts : accounts[a].is_default_outgoing
    THEN CHOOSE a \in DOMAIN accounts : accounts[a].is_default_outgoing
    ELSE ""

\* What the POST to /messages can come to.
PostOutcomes ==
    {"ok",               \* 200, with the message id in the response
     "ok_no_id",         \* 200, the response has no 'messages'
     "error_json",       \* an HTTP error whose body is {"error": {"message": ...}}
     "error_not_json",   \* an HTTP error whose body is not JSON
     "error_no_response" \* no response at all (connection error)
    }

\* A plausible slip: the outcome logged inside the try block, so that a
\* failed POST leaves no WhatsApp Notification Log record.
NotificationLogsOfSuccessOnly(template, success, response, error_message) ==
    IF success
    THEN <<[template |-> template, meta_data |-> [response |-> response]]>>
    ELSE <<>>

\* The finally block of notify: the WhatsApp Notification Log record.
NotificationLogsOf(template, success, response, error_message) ==
    IF success
    THEN <<[template |-> template, meta_data |-> [response |-> response]]>>
    ELSE <<[template |-> template, meta_data |-> [error |-> error_message]]>>

\* A plausible slip: a POST that failed is sent a second time.
notify_retry(self, content_type, data, doc_data, template_account, outcome, message_id) ==
    LET account ==
            IF template_account # "" THEN template_account ELSE DefaultOutgoingAccount
    IN
    IF template_account # "" /\ template_account \notin DOMAIN accounts
    THEN EndedAt("account", "DoesNotExistError", <<>>)
    ELSE IF account = ""
    THEN EndedAt("account", "ValidationError", <<>>)
    ELSE
    LET request == [method |-> "POST", endpoint |-> "messages",
                    account |-> account, data |-> data]
        response == IF outcome = "ok"
                    THEN [messages |-> <<[id |-> message_id]>>]
                    ELSE [contacts |-> <<>>]
        posted == outcome \in {"ok", "ok_no_id"}
        \* The text parameters notify reads from the first component; a
        \* parameter without 'text' (a document or an image) raises KeyError.
        params_ok ==
            \/ data.components = <<>>
            \/ \A i \in 1..Len(data.components[1].parameters) :
                  "text" \in DOMAIN data.components[1].parameters[i]
        saved == outcome = "ok" /\ params_ok
        new_doc ==
            [type |-> "Outgoing", to |-> data.to, message_type |-> "Template",
             message_id |-> message_id,
             content_type |-> IF content_type = "" THEN "text" ELSE content_type,
             template |-> self.template,
             template_parameters |->
                 IF data.components = <<>> THEN <<>>
                 ELSE [i \in 1..Len(data.components[1].parameters) |->
                          data.components[1].parameters[i].text],
             whatsapp_account |-> account,
             reference_name |-> IF doc_data = PyNone THEN "" ELSE doc_data.name,
             status |-> PyNone, conversation_id |-> PyNone]
        \* Lines 462-464: cint(value) for a numeric field; the fields of
        \* the model that hold an integer are the numeric ones.
        CintIfNumeric(old) ==
            IF old.kind = "int" THEN PyInt(StrToInt(PyToStr(self.property_value)))
            ELSE self.property_value
        sets == IF /\ saved
                   /\ doc_data # PyNone
                   /\ self.set_property_after_alert # ""
                   /\ Truthy(self.property_value)
                   /\ self.set_property_after_alert \in DOMAIN doc_data.fields
                THEN <<[name |-> doc_data.name,
                        fieldname |-> self.set_property_after_alert,
                        value |-> CintIfNumeric(
                            doc_data.fields[self.set_property_after_alert])]>>
                ELSE <<>>
        error_message ==
            CASE outcome = "error_json" -> "provider error message"
              [] outcome = "ok_no_id" -> "KeyError('messages')"
              [] outcome = "ok" -> "KeyError('text')"
              [] OTHER -> "HTTPError"
    IN  [applies |-> TRUE,
         stage |-> "posted",
         raised |-> IF outcome = "error_not_json" THEN "JSONDecodeError" ELSE "",
         errors |-> <<>>,
         posts |-> IF posted THEN <<request>> ELSE <<request, request>>,
         answers |-> IF posted THEN <<outcome>> ELSE <<outcome, outcome>>,
         msgs |-> IF saved THEN <<new_doc>> ELSE <<>>,
         logs |-> NotificationLogsOf(self.template, saved, response, error_message),
         sets |-> sets]

\* A plausible slip: the property is set once the POST returned, before
\* the message record is saved.
notify_sets_first(self, content_type, data, doc_data, template_account, outcome, message_id) ==
    LET account ==
            IF template_account # "" THEN template_account ELSE DefaultOutgoingAccount
    IN
    IF template_account # "" /\ template_account \notin DOMAIN accounts
    THEN EndedAt("account", "DoesNotExistError", <<>>)
    ELSE IF account = ""
    THEN EndedAt("account", "ValidationError", <<>>)
    ELSE
    LET request == [method |-> "POST", endpoint |-> "messages",
                    account |-> account, data |-> data]
        response == IF outcome = "ok"
                    THEN [messages |-> <<[id |-> message_id]>>]
                    ELSE [contacts |-> <<>>]
        posted == outcome \in {"ok", "ok_no_id"}
        \* The text parameters notify reads from the first component; a
        \* parameter without 'text' (a document or an image) raises KeyError.
        params_ok ==
            \/ data.components = <<>>
            \/ \A i \in 1..Len(data.components[1].parameters) :
                  "text" \in DOMAIN data.components[1].parameters[i]
        saved == outcome = "ok" /\ params_ok
        new_doc ==
            [type |-> "Outgoing", to |-> data.to, message_type |-> "Template",
             message_id |-> message_id,
             content_type |-> IF content_type = "" THEN "text" ELSE content_type,
             template |-> self.template,
             template_parameters |->
                 IF data.components = <<>> THEN <<>>
                 ELSE [i \in 1..Len(data.components[1].parameters) |->
                          data.components[1].parameters[i].text],
             whatsapp_account |-> account,
             reference_name |-> IF doc_data = PyNone THEN "" ELSE doc_data.name,
             status |-> PyNone, conversation_id |-> PyNone]
        \* Lines 462-464: cint(value) for a numeric field; the fields of
        \* the model that hold an integer are the numeric ones.
        CintIfNumeric(old) ==
            IF old.kind = "int" THEN PyInt(StrToInt(PyToStr(self.property_value)))
            ELSE self.property_value
        sets == IF /\ posted
                   /\ doc_data # PyNone
                   /\ self.set_property_after_alert # ""
                   /\ Truthy(self.property_value)
                   /\ self.set_property_after_alert \in DOMAIN doc_data.fields
                THEN <<[name |-> doc_data.name,
                        fieldname |-> self.set_property_after_alert,
                        value |-> CintIfNumeric(
                            doc_data.fields[self.set_property_after_alert])]>>
                ELSE <<>>
        error_message ==
            CASE outcome = "error_json" -> "provider error message"
              [] outcome = "ok_no_id" -> "KeyError('messages')"
              [] outcome = "ok" -> "KeyError('text')"
              [] OTHER -> "HTTPError"
    IN  [applies |-> TRUE,
         stage |-> "posted",
         raised |-> IF outcome = "error_not_json" THEN "JSONDecodeError" ELSE "",
         errors |-> <<>>,
         posts |-> <<request>>,
         answers |-> <<outcome>>,
         msgs |-> IF saved THEN <<new_doc>> ELSE <<>>,
         logs |-> NotificationLogsOf(self.template, saved, response, error_message),
         sets |-> sets]

\* notify(data, doc_data, template_account), with the POST coming to
\* `outcome` and the provider naming the message `message_id`.
notify(self, content_type, data, doc_data, template_account, outcome, message_id) ==
    LET account ==
            IF template_account # "" THEN template_account ELSE DefaultOutgoingAccount
    IN
    IF template_account # "" /\ template_account \notin DOMAIN accounts
    THEN EndedAt("account", "DoesNotExistError", <<>>)
    ELSE IF account = ""
    THEN EndedAt("account", "ValidationError", <<>>)
    ELSE
    LET request == [method |-> "POST", endpoint |-> "messages",
                    account |-> account, data |-> data]
        response == IF outcome = "ok"
                    THEN [messages |-> <<[id |-> message_id]>>]
                    ELSE [contacts |-> <<>>]
        posted == outcome \in {"ok", "ok_no_id"}
        \* The text parameters notify reads from the first component; a
        \* parameter without 'text' (a document or an image) raises KeyError.
        params_ok ==
            \/ data.components = <<>>
            \/ \A i \in 1..Len(data.components[1].parameters) :
                  "text" \in DOMAIN data.components[1].parameters[i]
        saved == outcome = "ok" /\ params_ok
        new_doc ==
            [type |-> "Outgoing", to |-> data.to, message_type |-> "Template",
             message_id |-> message_id,
             content_type |-> IF content_type = "" THEN "text" ELSE content_type,
             template |-> self.template,
             template_parameters |->
                 IF data.components = <<>> THEN <<>>
                 ELSE [i \in 1..Len(data.components[1].parameters) |->
                          data.components[1].parameters[i].text],
             whatsapp_account |-> account,
             reference_name |-> IF doc_data = PyNone THEN "" ELSE doc_data.name,
             status |-> PyNone, conversation_id |-> PyNone]
        \* Lines 462-464: cint(value) for a numeric field; the fields of
        \* the model that hold an integer are the numeric ones.
        CintIfNumeric(old) ==
            IF old.kind = "int" THEN PyInt(StrToInt(PyToStr(self.property_value)))
            ELSE self.property_value
        sets == IF /\ saved
                   /\ doc_data # PyNone
                   /\ self.set_property_after_alert # ""
                   /\ Truthy(self.property_value)
                   /\ self.set_property_after_alert \in DOMAIN doc_data.fields
                THEN <<[name |-> doc_data.name,
                        fieldname |-> self.set_property_after_alert,
                        value |-> CintIfNumeric(
                            doc_data.fields[self.set_property_after_alert])]>>
                ELSE <<>>
        error_message ==
            CASE outcome = "error_json" -> "provider error message"
              [] outcome = "ok_no_id" -> "KeyError('messages')"
              [] outcome = "ok" -> "KeyError('text')"
              [] OTHER -> "HTTPError"
    IN  [applies |-> TRUE,
         stage |-> "posted",
         raised |-> IF outcome = "error_not_json" THEN "JSONDecodeError" ELSE "",
         errors |-> <<>>,
         posts |-> <<request>>,
         answers |-> <<outcome>>,
         msgs |-> IF saved THEN <<new_doc>> ELSE <<>>,
         logs |-> NotificationLogsOf(self.template, saved, response, error_message),
         sets |-> sets]

\* One row of the fields table: the text of its parameter, "-" when
\* resolving the row raises (no field name, no expression, a failing
\* expression).
FieldRowText(row, doc) ==
    IF row.field_type = "Expression"
    THEN CASE row.expression = "" -> <<"-">>
           [] row.expression = "doc.note" -> sanitize_whatsapp_param(doc.fields["note"])
           [] OTHER -> <<"-">>
    ELSE IF row.field_name = <<>> THEN <<"-">>
         ELSE LET \* doc.get_formatted(field_name) for the field types of the
                  \* model: the value as text.
                  get_formatted(v) ==
                      IF v.kind = "int" THEN PyStr(IntToStr(v.n)) ELSE v
                  value == get_value_from_path(doc, row.field_name)
                  formatted == IF value # PyNone /\ Truthy(get_formatted(value))
                               THEN get_formatted(value) ELSE value
              IN  sanitize_whatsapp_param(formatted)

TextParameter(text) == [type |-> "text", text |-> text]

\* The button components: one for every dynamic "Visit Website" button of
\* the template while button_fields has a field name left.
RECURSIVE ButtonComponents(_, _, _, _)
ButtonComponents(buttons, idx, button_fields, doc) ==
    IF idx > Len(buttons) THEN <<>>
    ELSE IF /\ buttons[idx].button_type = "Visit Website"
            /\ buttons[idx].url_type = "Dynamic"
            /\ button_fields # <<>>
         THEN <<[type |-> "button", sub_type |-> "url", index |-> idx - 1,
                 parameters |-> <<TextParameter(
                     IF Head(button_fields) \in DOMAIN doc.fields
                     THEN doc.fields[Head(button_fields)] ELSE PyNone)>>]>>
              \o ButtonComponents(buttons, idx + 1, Tail(button_fields), doc)
         ELSE ButtonComponents(buttons, idx + 1, button_fields, doc)

\* A plausible slip: the rule is run without a look at its disabled flag.
send_template_message_enabled(self, doc, phone_no, default_template, ignore_condition, outcome, message_id) ==
    LET \* What a template_data_script leaves in `result`: the model's
        \* scripts are a list of two fields of the document, a single value
        \* (no list), and a script that raises.
        ScriptResult(script_text) ==
            CASE script_text = "result = [doc.note, doc.ok]" ->
                    [raised |-> FALSE, is_list |-> TRUE,
                     values |-> <<doc.fields["note"], doc.fields["ok"]>>]
              [] script_text = "result = []" ->
                    [raised |-> FALSE, is_list |-> TRUE, values |-> <<>>]
              [] script_text = "result = doc.note" ->
                    [raised |-> FALSE, is_list |-> FALSE, values |-> <<>>]
              [] OTHER ->
                    [raised |-> TRUE, is_list |-> FALSE, values |-> <<>>]
        \* The header component for a DOCUMENT or IMAGE header.
        HeaderComponent(header_type, link, name) ==
            IF header_type = "DOCUMENT"
            THEN [type |-> "header",
                  parameters |-> <<[type |-> "document", link |-> link,
                                    filename |-> name]>>]
            ELSE [type |-> "header",
                  parameters |-> <<[type |-> "image", link |-> link]>>]
    IN
    IF self.condition # "" /\ ~ignore_condition /\ ~Truthy(doc.fields["ok"])
    THEN NoEffect
    ELSE IF default_template = PyNone /\ self.template \notin DOMAIN templates
    THEN EndedAt("template", "DoesNotExistError", <<>>)
    ELSE
    LET template == IF default_template # PyNone THEN default_template
                    ELSE templates[self.template]
        phone_number ==
            IF self.field_name # <<>>
            THEN IF Truthy(phone_no) THEN phone_no
                 ELSE get_value_from_path(doc, self.field_name)
            ELSE phone_no
    IN
    IF self.field_name # <<>> /\ ~Truthy(phone_number)
    THEN [EndedAt("phone", "", <<"Could not resolve phone number">>)
             EXCEPT !.applies = TRUE]
    ELSE IF phone_number = PyNone
    THEN EndedAt("phone", "AttributeError", <<>>)
    ELSE
    LET script == IF self.template_data_script # ""
                  THEN ScriptResult(self.template_data_script)
                  ELSE [raised |-> FALSE, is_list |-> TRUE, values |-> <<>>]
    IN
    IF self.template_data_script # "" /\ (script.raised \/ ~script.is_list)
    THEN EndedAt("parameters", "ValidationError", <<"Error in template_data_script">>)
    ELSE IF self.template_data_script = "" /\ self.fields = <<>>
    THEN EndedAt("parameters", "UnboundLocalError", <<>>)
    ELSE
    LET \* Resolving row i raises inside the try (lines 222-290).
        RowRaises(i) ==
            \/ /\ self.fields[i].field_type = "Expression"
               /\ self.fields[i].expression # "doc.note"
            \/ /\ self.fields[i].field_type = "Field"
               /\ self.fields[i].field_name = <<>>
        \* Lines 293-296, in the except block: field_identifier is the
        \* field name or else the expression, and len(field_identifier) is
        \* taken; with no field name and the expression None this is
        \* len(None), a TypeError that no handler catches.
        HandlerRaises(i) ==
            /\ RowRaises(i)
            /\ self.fields[i].field_name = <<>>
            /\ self.fields[i].expression_none
        broken == IF self.template_data_script # "" THEN {}
                  ELSE {i \in 1..Len(self.fields) : HandlerRaises(i)}
        \* The errors logged for the rows before row n.
        ErrorsBefore(n) ==
            SelectSeq([i \in 1..(n - 1) |->
                          IF RowRaises(i) THEN "Error processing field" ELSE ""],
                      LAMBDA e : e # "")
    IN
    IF broken # {}
    THEN EndedAt("parameters", "TypeError",
                 ErrorsBefore(CHOOSE i \in broken : \A j \in broken : i <= j))
    ELSE
    LET parameters ==
            IF self.template_data_script # ""
            THEN [i \in 1..Len(script.values) |->
                     TextParameter(PyStr(sanitize_whatsapp_param(script.values[i])))]
            ELSE [i \in 1..Len(self.fields) |->
                     TextParameter(PyStr(FieldRowText(self.fields[i], doc)))]
        row_errors ==
            IF self.template_data_script # "" THEN <<>>
            ELSE ErrorsBefore(Len(self.fields) + 1)
        body == IF parameters # <<>>
                THEN <<[type |-> "body", parameters |-> parameters]>> ELSE <<>>
        has_url == self.attachment # ""
    IN
    IF template.header_type \in {"DOCUMENT", "IMAGE"} /\ ~has_url
    THEN EndedAt("header", "UnboundLocalError", row_errors)
    ELSE
    LET header == IF template.header_type \in {"DOCUMENT", "IMAGE"}
                  THEN <<HeaderComponent(template.header_type, self.attachment,
                                         doc.name)>>
                  ELSE <<>>
        buttons == ButtonComponents(template.buttons, 1, self.button_fields, doc)
        data == [to |-> format_number(PyToStr(phone_number)),
                 name |-> template.actual_name,
                 language |-> template.language_code,
                 components |-> body \o header \o buttons]
        sent == notify(self, HeaderTypeLower(template.header_type), data, doc,
                       template.whatsapp_account, outcome, message_id)
    IN  [sent EXCEPT !.errors = row_errors \o sent.errors]

\* send_template_message(doc, phone_no, default_template, ignore_condition)
send_template_message(self, doc, phone_no, default_template, ignore_condition, outcome, message_id) ==
    LET \* What a template_data_script leaves in `result`: the model's
        \* scripts are a list of two fields of the document, a single value
        \* (no list), and a script that raises.
        ScriptResult(script_text) ==
            CASE script_text = "result = [doc.note, doc.ok]" ->
                    [raised |-> FALSE, is_list |-> TRUE,
                     values |-> <<doc.fields["note"], doc.fields["ok"]>>]
              [] script_text = "result = []" ->
                    [raised |-> FALSE, is_list |-> TRUE, values |-> <<>>]
              [] script_text = "result = doc.note" ->
                    [raised |-> FALSE, is_list |-> FALSE, values |-> <<>>]
              [] OTHER ->
                    [raised |-> TRUE, is_list |-> FALSE, values |-> <<>>]
        \* The header component for a DOCUMENT or IMAGE header.
        HeaderComponent(header_type, link, name) ==
            IF header_type = "DOCUMENT"
            THEN [type |-> "header",
                  parameters |-> <<[type |-> "document", link |-> link,
                                    filename |-> name]>>]
            ELSE [type |-> "header",
                  parameters |-> <<[type |-> "image", link |-> link]>>]
    IN
    IF self.disabled THEN NoEffect
    ELSE IF self.condition # "" /\ ~ignore_condition /\ ~Truthy(doc.fields["ok"])
    THEN NoEffect
    ELSE IF default_template = PyNone /\ self.template \notin DOMAIN templates
    THEN EndedAt("template", "DoesNotExistError", <<>>)
    ELSE
    LET template == IF default_template # PyNone THEN default_template
                    ELSE templates[self.template]
        phone_number ==
            IF self.field_name # <<>>
            THEN IF Truthy(phone_no) THEN phone_no
                 ELSE get_value_from_path(doc, self.field_name)
            ELSE phone_no
    IN
    IF self.field_name # <<>> /\ ~Truthy(phone_number)
    THEN [EndedAt("phone", "", <<"Could not resolve phone number">>)
             EXCEPT !.applies = TRUE]
    ELSE IF phone_number = PyNone
    THEN EndedAt("phone", "AttributeError", <<>>)
    ELSE
    LET script == IF self.template_data_script # ""
                  THEN ScriptResult(self.template_data_script)
                  ELSE [raised |-> FALSE, is_list |-> TRUE, values |-> <<>>]
    IN
    IF self.template_data_script # "" /\ (script.raised \/ ~script.is_list)
    THEN EndedAt("parameters", "ValidationError", <<"Error in template_data_script">>)
    ELSE IF self.template_data_script = "" /\ self.fields = <<>>
    THEN EndedAt("parameters", "UnboundLocalError", <<>>)
    ELSE
    LET \* Resolving row i raises inside the try (lines 222-290).
        RowRaises(i) ==
            \/ /\ self.fields[i].field_type = "Expression"
               /\ self.fields[i].expression # "doc.note"
            \/ /\ self.fields[i].field_type = "Field"
               /\ self.fields[i].field_name = <<>>
        \* Lines 293-296, in the except block: field_identifier is the
        \* field name or else the expression, and len(field_identifier) is
        \* taken; with no field name and the expression None this is
        \* len(None), a TypeError that no handler catches.
        HandlerRaises(i) ==
            /\ RowRaises(i)
            /\ self.fields[i].field_name = <<>>
            /\ self.fields[i].expression_none
        broken == IF self.template_data_script # "" THEN {}
                  ELSE {i \in 1..Len(self.fields) : HandlerRaises(i)}
        \* The errors logged for the rows before row n.
        ErrorsBefore(n) ==
            SelectSeq([i \in 1..(n - 1) |->
                          IF RowRaises(i) THEN "Error processing field" ELSE ""],
                      LAMBDA e : e # "")
    IN
    IF broken # {}
    THEN EndedAt("parameters", "TypeError",
                 ErrorsBefore(CHOOSE i \in broken : \A j \in broken : i <= j))
    ELSE
    LET parameters ==
            IF self.template_data_script # ""
            THEN [i \in 1..Len(script.values) |->
                     TextParameter(PyStr(sanitize_whatsapp_param(script.values[i])))]
            ELSE [i \in 1..Len(self.fields) |->
                     TextParameter(PyStr(FieldRowText(self.fields[i], doc)))]
        row_errors ==
            IF self.template_data_script # "" THEN <<>>
            ELSE ErrorsBefore(Len(self.fields) + 1)
        body == IF parameters # <<>>
                THEN <<[type |-> "body", parameters |-> parameters]>> ELSE <<>>
        has_url == self.attachment # ""
    IN
    IF template.header_type \in {"DOCUMENT", "IMAGE"} /\ ~has_url
    THEN EndedAt("header", "UnboundLocalError", row_errors)
    ELSE
    LET header == IF template.header_type \in {"DOCUMENT", "IMAGE"}
                  THEN <<HeaderComponent(template.header_type, self.attachment,
                                         doc.name)>>
                  ELSE <<>>
        buttons == ButtonComponents(template.buttons, 1, self.button_fields, doc)
        data == [to |-> format_number(PyToStr(phone_number)),
                 name |-> template.actual_name,
                 language |-> template.language_code,
                 components |-> body \o header \o buttons]
        sent == notify(self, HeaderTypeLower(template.header_type), data, doc,
                       template.whatsapp_account, outcome, message_id)
    IN  [sent EXCEPT !.errors = row_errors \o sent.errors]

\* send_simple_template: one notify per contact, in order; an exception
\* ends the loop.  outcomes[i] is what the POST for contact i comes to.
RECURSIVE send_simple_template(_, _, _, _, _)
send_simple_template(self, template, contacts, outcomes, first_id) ==
    IF contacts = <<>> THEN [NoEffect EXCEPT !.applies = TRUE, !.stage = "posted"]
    ELSE IF Head(contacts) = PyNone
    THEN EndedAt("phone", "AttributeError", <<>>)
    ELSE
    LET data == [to |-> format_number(PyToStr(Head(contacts))),
                 name |-> template.actual_name,
                 language |-> template.language_code,
                 components |-> <<>>]
        one == notify(self, HeaderTypeLower(template.header_type), data, PyNone,
                      template.whatsapp_account, Head(outcomes), first_id)
        rest == send_simple_template(self, template, Tail(contacts), Tail(outcomes),
                                     first_id + Len(one.posts))
    IN  IF one.raised # "" THEN one
        ELSE [rest EXCEPT !.posts = one.posts \o rest.posts,
                          !.answers = one.answers \o rest.answers,
                          !.msgs = one.msgs \o rest.msgs,
                          !.logs = one.logs \o rest.logs,
                          !.stage = IF rest.raised # "" THEN rest.stage ELSE "posted"]

\* The number of contacts send_simple_template got to (each is one send
\* attempt): all of them, or up to the one whose attempt raised.
RECURSIVE SimpleAttempts(_, _, _, _)
SimpleAttempts(self, template, contacts, outcomes) ==
    IF contacts = <<>> THEN 0
    ELSE IF Head(contacts) = PyNone THEN 1
    ELSE IF notify(self, "", [to |-> <<>>, components |-> <<>>], PyNone,
                   template.whatsapp_account, Head(outcomes), 0).raised # ""
         THEN 1
    ELSE 1 + SimpleAttempts(self, template, Tail(contacts), Tail(outcomes))

\* get_documents_for_today: send_template_message for each document of
\* the reference doctype whose date field lies in the window of the
\* reference day.  A Datetime is a day and the milliseconds since its
\* midnight; `order` is the order in which get_all lists the documents.
\* The result is the effect and the names of the documents handed to
\* send_template_message; an exception of a send ends the loop.
get_documents_for_today(self, today, order, outcome, first_id) ==
    LET diff_days == IF self.doctype_event = "Days After"
                     THEN -self.days_in_advance ELSE self.days_in_advance
        reference_date == today + diff_days
        \* " 00:00:00.000000" and " 23:59:59.000000"
        reference_date_start == [day |-> reference_date, ms |-> 0]
        reference_date_end == [day |-> reference_date, ms |-> 86399000]
        Le(a, b) == a.day < b.day \/ (a.day = b.day /\ a.ms <= b.ms)
        Listed(n) ==
            /\ source_docs[n].doctype = self.reference_doctype
            /\ self.date_changed \in DOMAIN source_docs[n].fields
            /\ Le(reference_date_start, source_docs[n].fields[self.date_changed])
            /\ Le(source_docs[n].fields[self.date_changed], reference_date_end)
        doc_list == SelectSeq(order, Listed)
        \* The effect so far, then the effect of the send for document n.
        Sent(acc, n, one) ==
            [eff |-> [f \in DOMAIN one |->
                         IF f \in {"posts", "answers", "msgs", "logs", "errors", "sets"}
                         THEN acc.eff[f] \o one[f] ELSE one[f]],
             sends |-> Append(acc.sends, n)]
        RECURSIVE SendEach(_, _)
        SendEach(names, acc) ==
            IF names = <<>> \/ acc.eff.raised # "" THEN acc
            ELSE SendEach(Tail(names),
                          Sent(acc, Head(names),
                               send_template_message(
                                   self, source_docs[Head(names)], PyNone, PyNone,
                                   FALSE, outcome, first_id + Len(acc.eff.posts))))
    IN  SendEach(doc_list, [eff |-> [NoEffect EXCEPT !.applies = TRUE],
                            sends |-> <<>>])

\* trigger_notifications(method): nothing during import or patch; for
\* "daily", get_documents_for_today of each enabled rule whose event is
\* Days Before or Days After, in the order get_all lists them.  `rules` is
\* the WhatsApp Notification table.  The result is the effect and the
\* (rule, document) pairs handed to send_template_message.
trigger_notifications(method, in_import, in_patch, rules, today, order, outcome, first_id) ==
    LET Nothing == [eff |-> NoEffect, sends |-> <<>>]
        Daily(i) == /\ rules[i].doctype_event \in {"Days Before", "Days After"}
                    /\ ~rules[i].disabled
        doc_list == SelectSeq([i \in 1..Len(rules) |-> i], Daily)
        \* The effect so far, then the effect of rule i.
        Alerted(acc, i, one) ==
            [eff |-> [f \in DOMAIN one.eff |->
                         IF f \in {"posts", "answers", "msgs", "logs", "errors", "sets"}
                         THEN acc.eff[f] \o one.eff[f] ELSE one.eff[f]],
             sends |-> acc.sends \o [k \in 1..Len(one.sends) |->
                                        [rule |-> i, doc |-> one.sends[k]]]]
        RECURSIVE Alert(_, _)
        Alert(list, acc) ==
            IF list = <<>> \/ acc.eff.raised # "" THEN acc
            ELSE Alert(Tail(list),
                       Alerted(acc, Head(list),
                               get_documents_for_today(
                                   rules[Head(list)], today, order, outcome,
                                   first_id + Len(acc.eff.posts))))
    IN  IF in_import \/ in_patch THEN Nothing
        ELSE IF method # "daily" THEN Nothing
        ELSE Alert(doc_list, [eff |-> [NoEffect EXCEPT !.applies = TRUE],
                              sends |-> <<>>])

(***************************************************************************)
(* SpecNotify: notification rules sending template messages.               *)
(***************************************************************************)
\* The number of handler invocations in a behaviour.
MaxCalls == 2

AccountDoc(token, phone_id, outgoing) ==
    [webhook_verify_token |-> token, phone_id |-> phone_id,
     is_default_outgoing |-> outgoing, is_default_incoming |-> outgoing,
     status |-> "Active"]

TemplateDoc(actual_name, header_type, buttons, account) ==
    [template_name |-> actual_name, actual_name |-> actual_name,
     language |-> <<"e", "n">>, language_code |-> <<"e", "n">>,
     category |-> "UTILITY", header_type |-> header_type, header |-> <<>>,
     footer |-> <<>>, sample |-> "", buttons |-> buttons,
     whatsapp_account |-> account, id |-> "", status |-> <<>>,
     template |-> <<>>, sample_values |-> <<>>]

DynamicUrlButton == [button_type |-> "Visit Website", url_type |-> "Dynamic"]

\* The documents the rules run on: two orders, one of them linked to a
\* customer that exists.  Both are due on day 2: d1 at `due_ms`
\* milliseconds after midnight, d2 at 23:59:59.
NotifyDocs(due_ms) ==
    LET LinkTo(name) == [kind |-> "link", to |-> name, text |-> <<"c">>]
        OrderDoc(name, ok, mobile, note, customer, ms) ==
            [kind |-> "doc", doctype |-> "Order", name |-> name,
             fields |-> [ok |-> ok, mobile |-> mobile, note |-> note,
                         customer |-> customer, sent |-> PyInt(0),
                         due |-> [day |-> 2, ms |-> ms]]]
    IN  ("d1" :> OrderDoc("d1", PyInt(1), PyStr(<<"+", "1", "5">>),
                          PyStr(<<" ", "h", "i", "\n", "x">>), LinkTo("c1"),
                          due_ms))
        @@ ("d2" :> OrderDoc("d2", PyInt(0), PyNone, PyNone, LinkTo("c9"),
                             86399000))
        @@ ("c1" :> [kind |-> "doc", doctype |-> "Customer", name |-> "c1",
                     fields |-> [mobile |-> PyStr(<<"2", "7">>)]])

\* A row of the fields table; path <<>> is no field name.  The attribute
\* `expression` of a row is a text, or None when it was never set
\* (expression_none, the text being "" then).
FieldRow(field_type, path, e) ==
    [field_type |-> field_type, field_name |-> path, expression |-> e,
     expression_none |-> FALSE]

BaseRule ==
    [template |-> "t_plain", disabled |-> FALSE, condition |-> "",
     field_name |-> <<"mobile">>, template_data_script |-> "",
     fields |-> <<FieldRow("Field", <<"note">>, "")>>, attachment |-> "",
     button_fields |-> <<>>, set_property_after_alert |-> "",
     property_value |-> PyNone, reference_doctype |-> "Order",
     doctype_event |-> "After Save", days_in_advance |-> 0,
     date_changed |-> "due"]

\* The notification rules of the model.
Rules ==
    {BaseRule,
     [BaseRule EXCEPT !.disabled = TRUE],
     [BaseRule EXCEPT !.condition = "doc.ok",
                      !.set_property_after_alert = "sent",
                      !.property_value = PyStr(<<"1">>)],
     [BaseRule EXCEPT !.field_name = <<>>,
                      !.template_data_script = "result = [doc.note, doc.ok]"],
     [BaseRule EXCEPT !.field_name = <<"customer", "mobile">>,
                      !.template_data_script = "1/0"],
     [BaseRule EXCEPT !.fields = <<>>],
     [BaseRule EXCEPT
         !.fields = <<FieldRow("Expression", <<>>, "1/0"),
                      [FieldRow("Field", <<>>, "") EXCEPT !.expression_none = TRUE],
                      FieldRow("Field", <<"note">>, "")>>],
     [BaseRule EXCEPT !.template = "t_doc", !.attachment = "print",
                      !.template_data_script = "result = []"],
     [BaseRule EXCEPT !.template = "t_doc", !.attachment = "custom",
                      !.fields = <<FieldRow("Field", <<"note">>, ""),
                                   FieldRow("Field", <<>>, ""),
                                   FieldRow("Expression", <<>>, "1/0"),
                                   FieldRow("Expression", <<>>, "doc.note")>>],
     [BaseRule EXCEPT !.template = "t_btn", !.button_fields = <<"note">>],
     [BaseRule EXCEPT !.template = "t_url", !.button_fields = <<"note">>],
     [BaseRule EXCEPT !.template = "t_gone"]}

InitNotify ==
    LET \* The WhatsApp Templates records of the notification rules.
        NotifyTemplates ==
            ("t_plain" :> TemplateDoc(<<"p">>, "", <<>>, ""))
            @@ ("t_doc" :> TemplateDoc(<<"d">>, "DOCUMENT", <<>>, "acc1"))
            @@ ("t_btn" :> TemplateDoc(<<"b">>, "TEXT", <<DynamicUrlButton>>, "gone"))
            @@ ("t_url" :> TemplateDoc(<<"u">>, "", <<DynamicUrlButton>>, "acc1"))
    IN
    /\ arg = Null /\ ret = Null /\ pc = "idle"
    /\ accounts \in {("acc1" :> AccountDoc("s", "p1", TRUE)),
                     ("acc1" :> AccountDoc("s", "p1", FALSE))}
    /\ templates = NotifyTemplates
    /\ source_docs \in {NotifyDocs(43200000), NotifyDocs(86399500)}
    /\ whatsapp_messages = <<>>
    /\ notification_logs = <<>>
    /\ error_logs = <<>>
    /\ http = <<>>
    /\ calls = <<>>

\* The database after a handler with effect eff, and the record of the call.
ApplyEffect(call, eff) ==
    /\ http' = http \o eff.posts
    /\ whatsapp_messages' = whatsapp_messages \o eff.msgs
    /\ notification_logs' = notification_logs \o eff.logs
    /\ error_logs' = error_logs \o eff.errors
    /\ source_docs' =
        [n \in DOMAIN source_docs |->
            IF \E i \in 1..Len(eff.sets) : eff.sets[i].name = n
            THEN LET set == eff.sets[CHOOSE i \in 1..Len(eff.sets) : eff.sets[i].name = n]
                 IN  [source_docs[n] EXCEPT !.fields[set.fieldname] = set.value]
            ELSE source_docs[n]]
    /\ calls' = Append(calls, call @@ [stage |-> eff.stage, raised |-> eff.raised,
                                        posts |-> Len(eff.posts),
                                        answers |-> eff.answers])
    /\ UNCHANGED <<accounts, templates, callVars>>

\* A document event (or the daily sweep) runs a rule on a document:
\* send_template_message(doc).
SendTemplateMessage ==
    \E self \in Rules, d \in {"d1", "d2"}, outcome \in PostOutcomes :
        /\ Len(calls) < MaxCalls
        /\ LET eff == send_template_message(self, source_docs[d], PyNone, PyNone,
                                            FALSE, outcome, Len(http) + 1)
           IN  ApplyEffect([op |-> "send_template_message",
                            template |-> self.template, self |-> self, doc |-> d,
                            ignore_condition |-> FALSE,
                            attempts |-> IF eff.applies THEN 1 ELSE 0], eff)

\* send_scheduled_message with a data list of one row:
\* send_template_message(doc, phone_no, template, True).
SendScheduledData ==
    \E self \in {[BaseRule EXCEPT !.condition = "doc.ok"],
                 [BaseRule EXCEPT !.field_name = <<>>,
                                  !.template_data_script = "result = doc.note"],
                 [BaseRule EXCEPT !.field_name = <<>>]},
       d \in {"d1", "d2"}, phone_no \in {PyNone, PyStr(<<"+", "4", "4">>)},
       outcome \in PostOutcomes :
        /\ Len(calls) < MaxCalls
        /\ self.template \in DOMAIN templates
        /\ LET eff == send_template_message(self, source_docs[d], phone_no,
                                            templates[self.template], TRUE, outcome,
                                            Len(http) + 1)
           IN  ApplyEffect([op |-> "send_template_message",
                            template |-> self.template, self |-> self, doc |-> d,
                            ignore_condition |-> TRUE,
                            attempts |-> IF eff.applies THEN 1 ELSE 0], eff)

\* send_scheduled_message with a contact list: a simple template to each.
SendSimpleTemplate ==
    \E self \in {BaseRule, [BaseRule EXCEPT !.template = "t_doc"]},
       contacts \in SeqUpTo({PyNone, PyStr(<<"+", "4", "4">>)}, 2),
       outcomes \in [1..2 -> {"ok", "error_not_json"}] :
        /\ Len(calls) < MaxCalls
        /\ contacts # <<>>
        /\ LET eff == send_simple_template(self, templates[self.template], contacts,
                                           outcomes, Len(http) + 1)
           IN  ApplyEffect([op |-> "send_simple_template",
                            template |-> self.template, self |-> self, doc |-> "",
                            ignore_condition |-> FALSE,
                            attempts |-> SimpleAttempts(self, templates[self.template],
                                                        contacts, outcomes)], eff)

\* The scheduler runs trigger_notifications(method) on day `today`, with
\* one of the WhatsApp Notification tables SweepRules, as get_all lists it.
TriggerNotifications ==
    LET Before(n) == [BaseRule EXCEPT !.doctype_event = "Days Before",
                                      !.days_in_advance = n]
        After(n) == [BaseRule EXCEPT !.doctype_event = "Days After",
                                     !.days_in_advance = n]
        SweepRules ==
            {<<Before(0), [After(1) EXCEPT !.disabled = TRUE]>>,
             <<[After(1) EXCEPT !.field_name = <<"customer", "mobile">>,
                                !.template_data_script = "1/0"], After(1)>>,
             <<BaseRule, [After(1) EXCEPT !.condition = "doc.ok"], Before(1)>>}
    IN
    \E rules \in SweepRules, today \in {2, 3},
       order \in {<<"d1", "d2", "c1">>, <<"c1", "d2", "d1">>},
       outcome \in {"ok", "error_not_json"},
       run \in {<<"daily", FALSE, FALSE>>, <<"daily", TRUE, FALSE>>,
                <<"daily", FALSE, TRUE>>, <<"all", FALSE, FALSE>>} :
        /\ Len(calls) < MaxCalls
        /\ LET swept == trigger_notifications(run[1], run[2], run[3], rules, today,
                                              order, outcome, Len(http) + 1)
           IN  ApplyEffect([op |-> "trigger_notifications", template |-> "",
                            method |-> run[1],
                            in_import |-> run[2], in_patch |-> run[3],
                            rules |-> rules, today |-> today,
                            sends |-> swept.sends,
                            attempts |-> Len(swept.sends)], swept.eff)

NextNotify ==
    \/ SendTemplateMessage
    \/ SendScheduledData
    \/ SendSimpleTemplate
    \/ TriggerNotifications

SpecNotify == InitNotify /\ [][NextNotify]_vars

(***************************************************************************)
(* C6: the WhatsApp Notification Log left by a send.                       *)
(***************************************************************************)
\* The number of send attempts the calls so far made for template t.
RECURSIVE AttemptsFor(_, _)
AttemptsFor(t, i) ==
    IF i = 0 THEN 0
    ELSE AttemptsFor(t, i - 1) + (IF calls[i].template = t THEN calls[i].attempts ELSE 0)

LogsFor(t) == Len(SelectSeq(notification_logs, LAMBDA l : l.template = t))

RuleTemplates == {"t_plain", "t_doc", "t_btn", "t_url", "t_gone"}

\* C6 as stated: every send attempt leaves exactly one WhatsApp Notification
\* Log record for the rule's template, however the attempt ends (unresolved
\* phone number and missing outgoing account included).
C6_LogPerAttempt ==
    \A t \in RuleTemplates : LogsFor(t) = AttemptsFor(t, Len(calls))

\* The k-th log is the log of the k-th POST.
LogOfPost(k) ==
    LET log == notification_logs[k]
        saved == \E m \in 1..Len(whatsapp_messages) :
                     whatsapp_messages[m].message_id = k
    IN  /\ log.template \in DOMAIN templates
        /\ templates[log.template].actual_name = http[k].data.name
        /\ IF saved
           THEN log.meta_data = [response |-> [messages |-> <<[id |-> k]>>]]
           ELSE DOMAIN log.meta_data = {"error"}

\* C6: every send attempt that gets to the POST leaves exactly one WhatsApp
\* Notification Log record for the rule's template: the provider's response
\* when the message record was saved, the error message otherwise (a failed
\* POST, a response without a message id).  An attempt that ends before the
\* POST (unresolved phone number, missing outgoing account) leaves none.
C6_LogPerPost ==
    /\ Len(notification_logs) = Len(http)
    /\ \A k \in 1..Len(http) : LogOfPost(k)
    /\ \A i \in 1..Len(calls) :
          IF calls[i].op = "trigger_notifications"
          THEN calls[i].posts <= calls[i].attempts
          ELSE calls[i].posts = calls[i].attempts
                   - (IF calls[i].stage \in {"skipped", "posted"} THEN 0 ELSE 1)

\* Two attempts: one ends at the unresolved phone number and leaves an Error
\* Log record only, the other posts, gets a response without a message id
\* and leaves a log with the error.
C6_Witness ==
    /\ Len(calls) = 2
    /\ calls[1].stage = "phone" /\ calls[1].attempts = 1 /\ calls[1].raised = ""
    /\ calls[2].stage = "posted" /\ calls[2].attempts = 1
    /\ error_logs = <<"Could not resolve phone number">>
    /\ Len(http) = 1 /\ whatsapp_messages = <<>>
    /\ notification_logs =
          <<[template |-> "t_plain", meta_data |-> [error |-> "KeyError('messages')"]]>>

\* A send that stops at the missing default outgoing account: it raises and
\* leaves no log.
C6_WitnessNoAccount ==
    /\ Len(calls) = 1
    /\ calls[1].stage = "account" /\ calls[1].raised = "ValidationError"
    /\ calls[1].attempts = 1
    /\ notification_logs = <<>> /\ http = <<>>


(***************************************************************************)
(* whatsapp_templates.py: validate, update_template, after_insert.         *)
(* A handler's effect: the exception it raises ("" for none), the document *)
(* as it leaves it, the requests it made, the Error Log records it wrote.  *)
(***************************************************************************)
UpperOf ==
    [a |-> "A", b |-> "B", c |-> "C", d |-> "D", e |-> "E", f |-> "F", g |-> "G",
     h |-> "H", i |-> "I", j |-> "J", k |-> "K", l |-> "L", m |-> "M", n |-> "N",
     o |-> "O", p |-> "P", q |-> "Q", r |-> "R", s |-> "S", t |-> "T", u |-> "U",
     v |-> "V", w |-> "W", x |-> "X", y |-> "Y", z |-> "Z"]

\* str.upper()
Upper(s) == [i \in 1..Len(s) |-> IF s[i] \in DOMAIN UpperOf THEN UpperOf[s[i]] ELSE s[i]]

Pending == <<"P", "E", "N", "D", "I", "N", "G">>
Approved == <<"A", "P", "P", "R", "O", "V", "E", "D">>
Rejected == <<"R", "E", "J", "E", "C", "T", "E", "D">>

\* A plausible slip: the status compared as it is stored.
StatusLocksUpdateExact(status) == status \in {Pending, Approved, Rejected}

\* self.status and self.status.upper() in ["PENDING", "APPROVED", "REJECTED"]
StatusLocksUpdate(status) ==
    status # <<>> /\ Upper(status) \in {Pending, Approved, Rejected}

\* get_settings raises when the template's WhatsApp Account does not exist.
HasSettings(self) == self.whatsapp_account \in DOMAIN accounts

\* The body text sent to the provider:
\* template.replace('\r\n', '\n').replace('\r', '\n'), then rstrip('\n\r').
TemplateText(self) ==
    LET RECURSIVE NormalizeNewlines(_)
        NormalizeNewlines(s) ==
            IF s = <<>> THEN <<>>
            ELSE IF Head(s) = "\r"
                 THEN <<"\n">> \o NormalizeNewlines(IF Len(s) > 1 /\ s[2] = "\n"
                                                    THEN Tail(Tail(s)) ELSE Tail(s))
                 ELSE <<Head(s)>> \o NormalizeNewlines(Tail(s))
        RECURSIVE RStripNewlines(_)
        RStripNewlines(s) ==
            IF s # <<>> /\ s[Len(s)] \in {"\n", "\r"}
            THEN RStripNewlines(SubSeq(s, 1, Len(s) - 1)) ELSE s
    IN  RStripNewlines(NormalizeNewlines(self.template))

\* [f"Sample {i}" for i in range(1, param_count + 1)]
GeneratedSamples(param_count) ==
    [i \in 1..param_count |-> <<"S", "a", "m", "p", "l", "e", " ">> \o IntToStr(i)]

\* The parsed sample values of a template with param_count parameters.
SampleValues(self, param_count) ==
    _parse_sample_values(self.sample_values, PyInt(param_count))

\* The sample list update_template sends, empty for a body without
\* parameters: padded with "Sample" or truncated to the parameter count;
\* generated when there are no sample values.
UpdateSampleList(self) ==
    LET Padded(sample_list, param_count) ==
            [i \in 1..param_count |-> IF i <= Len(sample_list) THEN sample_list[i]
                                      ELSE <<"S", "a", "m", "p", "l", "e">>]
        Samples(param_count) ==
            IF param_count = 0 THEN <<>>
            ELSE IF self.sample_values # <<>>
            THEN Padded(SampleValues(self, param_count), param_count)
            ELSE GeneratedSamples(param_count)
    IN  Samples(get_parameter_count(self.template))

\* The sample list after_insert sends, empty for a body without parameters.
CreateSampleList(self) ==
    LET Samples(param_count) ==
            IF param_count = 0 THEN <<>>
            ELSE IF self.sample_values # <<>> THEN SampleValues(self, param_count)
            ELSE GeneratedSamples(param_count)
    IN  Samples(get_parameter_count(self.template))

\* get_header reads self._media_id, which only the uploads of validate set
\* (IMAGE or DOCUMENT header with a sample); without it, it raises.
HeaderRaises(self) ==
    /\ self.header_type \notin {"", "TEXT"}
    /\ ~(self.header_type \in {"IMAGE", "DOCUMENT"} /\ self.sample # "")

\* get_header, for a sample that holds no ", ".
get_header(self) ==
    IF self.header_type = "TEXT"
    THEN [type |-> "header", format |-> "TEXT", text |-> self.header,
          example |-> IF self.sample # "" THEN <<self.sample>> ELSE <<>>]
    ELSE [type |-> "header", format |-> self.header_type,
          example |-> <<"media_id">>]

\* data["components"] of the create and the update request.
TemplateComponents(self, sample_list) ==
    LET ButtonData(btn) ==
            [type |-> CASE btn.button_type = "Visit Website" -> "URL"
                        [] btn.button_type = "Call Phone" -> "PHONE_NUMBER"
                        [] btn.button_type = "Quick Reply" -> "QUICK_REPLY"
                        [] OTHER -> btn.button_type]
    IN  <<[type |-> "body", text |-> TemplateText(self), example |-> sample_list]>>
        \o (IF self.header_type # "" THEN <<get_header(self)>> ELSE <<>>)
        \o (IF self.footer # <<>> THEN <<[type |-> "footer", text |-> self.footer]>>
            ELSE <<>>)
        \o (IF self.buttons # <<>>
            THEN <<[type |-> "buttons",
                    buttons |-> [i \in 1..Len(self.buttons) |->
                                    ButtonData(self.buttons[i])]]>>
            ELSE <<>>)

\* update_template, the POST coming to `outcome`: every failure raises.
update_template(self, outcome) ==
    IF ~HasSettings(self)
    THEN [raised |-> "DoesNotExistError", requests |-> <<>>]
    ELSE IF HeaderRaises(self)
    THEN [raised |-> "AttributeError", requests |-> <<>>]
    ELSE [raised |-> IF outcome = "ok" THEN "" ELSE "ValidationError",
          requests |-> <<[method |-> "POST", endpoint |-> "update_template",
                          account |-> self.whatsapp_account, id |-> self.id,
                          data |-> [components |->
                              TemplateComponents(self, UpdateSampleList(self))]]>>]

\* Lines 42-44 of validate: the uploads (get_session_id, get_media_id).
Uploads(self, upload) ==
    IF ~(self.header_type \in {"IMAGE", "DOCUMENT"} /\ self.sample # "")
    THEN [raised |-> "", requests |-> <<>>]
    ELSE IF ~HasSettings(self)
    THEN [raised |-> "DoesNotExistError", requests |-> <<>>]
    ELSE IF upload # "ok"
    THEN [raised |-> "HTTPError",
          requests |-> <<[method |-> "POST", endpoint |-> "uploads",
                          account |-> self.whatsapp_account]>>]
    ELSE [raised |-> "",
          requests |-> <<[method |-> "POST", endpoint |-> "uploads",
                          account |-> self.whatsapp_account],
                         [method |-> "POST", endpoint |-> "upload_session",
                          account |-> self.whatsapp_account]>>]

\* A plausible slip: the sample values are only required, never counted.
ValidateThrowsUncounted(self) ==
    IF self.template # <<>> /\ get_parameter_count(self.template) > 0
       /\ self.sample_values = <<>>
    THEN "Sample Values Required" ELSE ""

\* The checks of validate that throw, in their order, after the uploads:
\* the body limit, the header and the footer limit, the sample values.
\* The value is the title of the frappe.throw, "" when none throws.
ValidateThrows(self) ==
    LET BodyLimit ==
            IF self.category \in {"AUTHENTICATION", "OTP"} THEN 1024
            ELSE IF self.header_type \in {"IMAGE", "VIDEO", "DOCUMENT"} THEN 1024
            ELSE 4096
        SampleValuesThrow(param_count) ==
            IF self.template = <<>> \/ param_count <= 0 THEN ""
            ELSE IF self.sample_values = <<>> THEN "Sample Values Required"
            ELSE IF Len(SampleValues(self, param_count)) # param_count
            THEN "Sample Values Mismatch"
            ELSE ""
    IN  IF \/ self.template # <<>> /\ Len(self.template) > BodyLimit
           \/ self.header_type = "TEXT" /\ Len(self.header) > 60
           \/ Len(self.footer) > 60
        THEN "Character Limit Exceeded"
        ELSE SampleValuesThrow(get_parameter_count(self.template))

\* The start of validate: the account, the language code and the actual
\* name it sets.  default_account is what get_whatsapp_account() gives
\* ("" for none), `language_changed` is has_value_changed("language").
PreparedDoc(self, language_changed, default_account) ==
    LET \* The Language records.
        Languages == {<<"e", "n">>, <<"p", "t", "-", "B", "R">>}
        ActualNameOf(sanitized, lowered) ==
            IF self.template_name # <<>> /\ sanitized # lowered
               /\ self.actual_name \in {<<>>, lowered}
            THEN sanitized ELSE self.actual_name
    IN  [self EXCEPT
            !.whatsapp_account = IF self.whatsapp_account = "" THEN default_account
                                 ELSE self.whatsapp_account,
            !.language_code =
                IF self.language_code = <<>> \/ language_changed
                THEN ReplaceChar(IF self.language \in Languages THEN self.language
                                 ELSE <<"e", "n">>, "-", <<"_">>)
                ELSE self.language_code,
            !.actual_name =
                ActualNameOf(sanitize_template_name(self.template_name),
                             ReplaceChar(Lower(self.template_name), " ", <<"_">>))]

\* validate, from its parts: `self` is the document after the start,
\* `uploads` and `update` what the uploads and the update come to, `thrown`
\* the title under which a check throws ("" when none does).
ValidateResult(self0, self, uploads, thrown, update) ==
    IF self.whatsapp_account = ""
    THEN [raised |-> "ValidationError", title |-> "", doc |-> self0,
          requests |-> <<>>, errors |-> <<>>]
    ELSE IF /\ self.template_name # <<>>
            /\ ~MatchesTemplateName(sanitize_template_name(self.template_name))
    THEN [raised |-> "ValidationError", title |-> "Invalid Template Name",
          doc |-> self, requests |-> <<>>, errors |-> <<>>]
    ELSE IF uploads.raised # ""
    THEN [raised |-> uploads.raised, title |-> "", doc |-> self,
          requests |-> uploads.requests, errors |-> <<>>]
    ELSE IF thrown # ""
    THEN [raised |-> "ValidationError", title |-> thrown, doc |-> self,
          requests |-> uploads.requests, errors |-> <<>>]
    ELSE [raised |-> "", title |-> "", doc |-> self,
          requests |-> uploads.requests \o update.requests,
          errors |-> IF update.raised # ""
                     THEN <<"Failed to update WhatsApp template">> ELSE <<>>]

\* validate after its start: the uploads, the checks, and at the end
\* (lines 130-141) the update, unless the template is new, has no provider
\* id or has a status that locks it.
ValidatePrepared(self0, self, is_new, upload, outcome) ==
    ValidateResult(self0, self, Uploads(self, upload), ValidateThrows(self),
                   IF ~is_new /\ self.id # "" /\ ~StatusLocksUpdate(self.status)
                   THEN update_template(self, outcome)
                   ELSE [raised |-> "", requests |-> <<>>])

\* validate.  `upload` and `outcome` are what the uploads and the update
\* request come to.
validate(self, is_new, language_changed, default_account, upload, outcome) ==
    ValidatePrepared(self, PreparedDoc(self, language_changed, default_account),
                     is_new, upload, outcome)

\* dict.get(key, default) on a payload value known to be a dict.
DictGet(v, key, default) == IF key \in DOMAIN v.d THEN v.d[key] ELSE default

\* A provider id as the record's field holds it: None is stored as unset.
IdOf(v) == IF v.kind = "text" THEN v.t ELSE ""

\* A status as the record's field holds it: None is stored as unset.
StatusOf(v) == IF v.kind = "str" THEN v.s ELSE <<>>

\* The first of the listed templates that matched, None when none did.
FirstListed(matching) == IF matching = <<>> THEN PyNone ELSE Head(matching)

\* A plausible slip: the listed name compared with the name as typed.
_check_template_exists_on_whatsapp_typed(self, lookup) ==
    IF ~lookup.ok THEN PyNone
    ELSE FirstListed(SelectSeq(lookup.data,
             LAMBDA template :
                 /\ DictGet(template, "name", PyNone) = PyStr(self.template_name)
                 /\ DictGet(template, "language", PyNone) = PyStr(self.language_code)))

\* _check_template_exists_on_whatsapp: `lookup` is what the GET comes to,
\* a failure (any exception gives None) or the templates the provider lists.
_check_template_exists_on_whatsapp(self, lookup) ==
    IF ~lookup.ok THEN PyNone
    ELSE FirstListed(SelectSeq(lookup.data,
             LAMBDA template :
                 /\ DictGet(template, "name", PyNone) = PyStr(self.actual_name)
                 /\ DictGet(template, "language", PyNone) = PyStr(self.language_code)))

\* The GET both lookups make.
LookupRequest(self) ==
    [method |-> "GET", endpoint |-> "message_templates",
     account |-> self.whatsapp_account, name |-> self.actual_name]

\* _sync_from_whatsapp_template
_sync_from_whatsapp_template(self, template) ==
    [self EXCEPT !.id = IdOf(DictGet(template, "id", PyNone)),
                 !.status = StatusOf(DictGet(template, "status", PyStr(Pending)))]

\* _sync_existing_template: the status of the first listed template with
\* this id or name; every exception is logged.
_sync_existing_template(self, lookup) ==
    LET Synced(found) ==
            IF ~HasSettings(self)
            THEN [raised |-> "", doc |-> self, stored |-> FALSE, requests |-> <<>>,
                  errors |-> <<"Failed to sync template">>]
            ELSE IF ~lookup.ok
            THEN [raised |-> "", doc |-> self, stored |-> FALSE,
                  requests |-> <<LookupRequest(self)>>,
                  errors |-> <<"Failed to sync template">>]
            ELSE IF found = PyNone
            THEN [raised |-> "", doc |-> self, stored |-> FALSE,
                  requests |-> <<LookupRequest(self)>>, errors |-> <<>>]
            ELSE [raised |-> "",
                  doc |-> [self EXCEPT !.status =
                              StatusOf(DictGet(found, "status", PyStr(self.status)))],
                  stored |-> TRUE,
                  requests |-> <<LookupRequest(self)>>, errors |-> <<>>]
    IN  Synced(FirstListed(SelectSeq(lookup.data,
                   LAMBDA template :
                       \/ DictGet(template, "id", PyNone) = WStr(self.id)
                       \/ DictGet(template, "name", PyNone) = PyStr(self.actual_name))))

\* _validate_sample_value_lengths throws: a value of a header parameter
\* over 60 characters, of a body parameter over 1000.
_validate_sample_value_lengths(self, sample_list) ==
    LET \* sub in s
        HasSubSeq(s, sub) ==
            \E i \in 1..(Len(s) - Len(sub) + 1) : SubSeq(s, i, i + Len(sub) - 1) = sub
        HeaderHasParam(idx) ==
            /\ self.header_type = "TEXT"
            /\ self.header # <<>>
            /\ HasSubSeq(self.header, <<"{", "{">> \o IntToStr(idx) \o <<"}", "}">>)
    IN  \E idx \in 1..Len(sample_list) :
            Len(sample_list[idx]) > (IF HeaderHasParam(idx) THEN 60 ELSE 1000)

\* The create request of after_insert.
CreateRequest(self) ==
    [method |-> "POST", endpoint |-> "create_template",
     account |-> self.whatsapp_account,
     data |-> [name |-> self.actual_name, language |-> self.language_code,
               category |-> self.category,
               components |-> TemplateComponents(self, CreateSampleList(self))]]

\* The actual name after_insert sets.
WithActualName(self) ==
    IF self.template_name # <<>>
    THEN [self EXCEPT !.actual_name = sanitize_template_name(
              IF self.actual_name = <<>> THEN self.template_name
              ELSE self.actual_name)]
    ELSE self

\* after_insert.  `skip` is frappe.flags.skip_whatsapp_api, `lookup` what
\* the GET comes to, `created` what the create POST comes to (None for a
\* failure, the response otherwise).  `stored` says that db_update ran.
after_insert(self, skip, lookup, created) ==
    LET \* Lines 344-352: the sample count and the sample lengths throw.
        SamplesThrow(doc, sample_list, param_count) ==
            /\ param_count > 0
            /\ doc.sample_values # <<>>
            /\ \/ Len(sample_list) # param_count
               \/ _validate_sample_value_lengths(doc, sample_list)
        ThrowsFor(doc, param_count) ==
            SamplesThrow(doc, SampleValues(doc, param_count), param_count)
        \* Lines 330-458, existing_template being what the lookup found.
        CreateUnlessListed(doc, existing_template) ==
            IF ~HasSettings(doc)
            THEN [raised |-> "DoesNotExistError", doc |-> doc, stored |-> FALSE,
                  requests |-> <<>>, errors |-> <<>>]
            ELSE IF Truthy(existing_template)
            THEN [raised |-> "",
                  doc |-> _sync_from_whatsapp_template(doc, existing_template),
                  stored |-> TRUE, requests |-> <<LookupRequest(doc)>>,
                  errors |-> <<>>]
            ELSE IF ThrowsFor(doc, get_parameter_count(doc.template))
            THEN [raised |-> "ValidationError", doc |-> doc, stored |-> FALSE,
                  requests |-> <<LookupRequest(doc)>>, errors |-> <<>>]
            ELSE IF HeaderRaises(doc)
            THEN [raised |-> "AttributeError", doc |-> doc, stored |-> FALSE,
                  requests |-> <<LookupRequest(doc)>>, errors |-> <<>>]
            ELSE IF created # PyNone /\ {"id", "status"} \subseteq DOMAIN created.d
            THEN [raised |-> "",
                  doc |-> [doc EXCEPT !.id = IdOf(created.d["id"]),
                                      !.status = StatusOf(created.d["status"])],
                  stored |-> TRUE,
                  requests |-> <<LookupRequest(doc), CreateRequest(doc)>>,
                  errors |-> <<>>]
            ELSE [raised |-> "ValidationError", doc |-> doc, stored |-> FALSE,
                  requests |-> <<LookupRequest(doc), CreateRequest(doc)>>,
                  errors |-> <<"WhatsApp Template Creation Error">>]
        LookupThenCreate(doc) ==
            CreateUnlessListed(doc, _check_template_exists_on_whatsapp(doc, lookup))
    IN  IF skip
        THEN [raised |-> "", doc |-> self, stored |-> FALSE, requests |-> <<>>,
              errors |-> <<>>]
        ELSE IF self.id # "" THEN _sync_existing_template(self, lookup)
        ELSE LookupThenCreate(WithActualName(self))

\* A plausible slip: every failure of the DELETE is thrown.
on_trash_strict(self, outcome) ==
    IF ~HasSettings(self)
    THEN [raised |-> "DoesNotExistError", requests |-> <<>>]
    ELSE [raised |-> IF outcome = "ok" THEN "" ELSE "ValidationError",
          requests |-> <<[method |-> "DELETE", endpoint |-> "message_templates",
                          account |-> self.whatsapp_account,
                          name |-> self.actual_name]>>]

\* on_trash.  `outcome` is what the DELETE comes to: "ok", or a failure
\* whose response is an error titled "Message Template Not Found"
\* ("not_found"), an error with another title ("error_other"), a body that
\* is not JSON ("error_not_json"), or no response at all
\* ("error_no_response": frappe.flags.integration_request is None).
on_trash(self, outcome) ==
    IF ~HasSettings(self)
    THEN [raised |-> "DoesNotExistError", requests |-> <<>>]
    ELSE [raised |-> CASE outcome \in {"ok", "not_found"} -> ""
                       [] outcome = "error_other" -> "ValidationError"
                       [] outcome = "error_not_json" -> "JSONDecodeError"
                       [] OTHER -> "AttributeError",
          requests |-> <<[method |-> "DELETE", endpoint |-> "message_templates",
                          account |-> self.whatsapp_account,
                          name |-> self.actual_name]>>]

\* upsert_doc_without_hooks: the record is written under its name, updated
\* when it exists and inserted when not, with its buttons.
upsert_doc_without_hooks(table, name, doc) ==
    [n \in DOMAIN table \cup {name} |-> IF n = name THEN doc ELSE table[n]]

\* fetch().  whatsapp_accounts are the active accounts in the order get_all
\* gives them, listings[a] is what the provider lists for account a, and
\* `outcome` is what the GET comes to.  A listed template is a record with
\* the keys the loop reads.
fetch(whatsapp_accounts, listings, outcome) ==
    LET IsDynamic(url) == \E i \in 1..(Len(url) - 1) : url[i] = "{" /\ url[i + 1] = "{"
        \* Lines 826-851: one button of a BUTTONS component.
        ButtonOf(button) ==
            [button_type |-> CASE button.type = "URL" -> "Visit Website"
                               [] button.type = "PHONE_NUMBER" -> "Call Phone"
                               [] OTHER -> "Quick Reply",
             url_type |-> IF button.type # "URL" THEN ""
                          ELSE IF IsDynamic(button.url) THEN "Dynamic" ELSE "Static"]
        \* Lines 797-851: one component written onto the document.
        WithComponent(doc, component) ==
            CASE component.type = "HEADER" ->
                    [doc EXCEPT !.header_type = component.format,
                                !.header = IF component.format = "TEXT"
                                           THEN component.text ELSE @]
              [] component.type = "FOOTER" -> [doc EXCEPT !.footer = component.text]
              [] component.type = "BODY" ->
                    [doc EXCEPT !.template = component.text,
                                !.sample_values =
                                    IF component.body_text # <<>>
                                    THEN Join(component.body_text[1], <<",">>) ELSE @]
              [] component.type = "BUTTONS" ->
                    [doc EXCEPT !.buttons = [i \in 1..Len(component.buttons) |->
                                                ButtonOf(component.buttons[i])]]
              [] OTHER -> doc
        RECURSIVE WithComponents(_, _, _)
        WithComponents(doc, components, i) ==
            IF i > Len(components) THEN doc
            ELSE WithComponents(WithComponent(doc, components[i]), components, i + 1)
        \* Lines 789-794: the status and the other fields of the listing.
        Reconciled(doc, template, account) ==
            WithComponents([doc EXCEPT !.status = template.status,
                                       !.language_code = template.language,
                                       !.category = template.category,
                                       !.id = template.id,
                                       !.whatsapp_account = account],
                           template.components, 1)
        \* Lines 775-786: the local record of the actual name, or a new one;
        \* a new record gets the first free name.
        NamedLike(table, template) ==
            {n \in DOMAIN table : table[n].actual_name = template.name}
        NewNames == <<"t_f1", "t_f2", "t_f3">>
        NewName(table) ==
            NewNames[CHOOSE i \in 1..Len(NewNames) :
                        /\ NewNames[i] \notin DOMAIN table
                        /\ \A j \in 1..(i - 1) : NewNames[j] \in DOMAIN table]
        Upserted(table, template, account) ==
            IF NamedLike(table, template) # {}
            THEN upsert_doc_without_hooks(
                     table, CHOOSE n \in NamedLike(table, template) : TRUE,
                     Reconciled(table[CHOOSE n \in NamedLike(table, template) : TRUE],
                                template, account))
            ELSE upsert_doc_without_hooks(
                     table, NewName(table),
                     Reconciled([TemplateDoc(template.name, "", <<>>, "")
                                    EXCEPT !.language = <<>>],
                                template, account))
        RECURSIVE Listed(_, _, _, _)
        Listed(table, data, i, account) ==
            IF i > Len(data) THEN table
            ELSE Listed(Upserted(table, data[i], account), data, i + 1, account)
        Request(account) ==
            [method |-> "GET", endpoint |-> "message_templates", account |-> account]
        \* Lines 766-876 for one account: any failure is thrown.
        OfAccount(account) ==
            IF outcome # "ok"
            THEN [raised |-> "ValidationError", templates |-> templates,
                  requests |-> <<Request(account)>>]
            ELSE [raised |-> "", requests |-> <<Request(account)>>,
                  templates |-> Listed(templates, listings[account], 1, account)]
    IN  \* The return of line 857 is inside the loop over the accounts, after
        \* the loop over the listing: the first account ends the call.
        IF whatsapp_accounts = <<>>
        THEN [raised |-> "", templates |-> templates, requests |-> <<>>]
        ELSE OfAccount(Head(whatsapp_accounts))

(***************************************************************************)
(* SpecTemplate: templates saved, inserted, deleted and fetched.           *)
(***************************************************************************)
\* The number of saves and inserts in a behaviour.
MaxTemplateCalls == 1

\* The lower-case letter of an upper-case one.
LowerOf(c) == CHOOSE l \in DOMAIN UpperOf : UpperOf[l] = c

\* A registered template: provider id, status, header type and sample; its
\* body is "hi\r\n".
Registered(name, id, status, header_type, sample, account) ==
    [TemplateDoc(name, header_type, <<>>, account)
        EXCEPT !.id = id, !.status = status, !.sample = sample,
               !.template = <<"h", "i", "\r", "\n">>]

\* The WhatsApp Templates records before any call; t_locked has a locked
\* status in some letter case.
ExistingTemplates(locked) ==
    ("t_locked" :> Registered(<<"a">>, "101", locked, "", "", "acc1"))
    @@ ("t_media" :> Registered(<<"b">>, "102", Approved, "DOCUMENT",
                                 "/files/a.pdf", "acc1"))
    @@ ("t_draft" :> Registered(<<"a", "a">>, "103", <<>>, "", "", "acc1"))
    @@ ("t_paused" :> Registered(<<"a", "b">>, "104",
                                  <<"P", "A", "U", "S", "E", "D">>, "VIDEO", "", "acc1"))
    @@ ("t_local" :> Registered(<<"b", "a">>, "", <<>>, "", "", "acc1"))
    @@ ("t_gone" :> Registered(<<"b", "b">>, "105", <<"n", "e", "w">>, "", "", "gone"))
    @@ ("t_param" :> [Registered(<<"c">>, "106", <<>>, "", "", "acc1")
                         EXCEPT !.template = <<"{", "{", "1", "}", "}">>,
                                !.sample_values = <<"x">>])

\* What a user changes before saving.
Edits ==
    {[field |-> "template", value |-> <<"y", "o">>],
     [field |-> "template", value |-> <<"{", "{", "1", "}", "}">>],
     [field |-> "sample_values", value |-> <<"x">>],
     [field |-> "sample_values", value |-> <<"x", ",", "y">>],
     [field |-> "sample_values", value |-> <<>>],
     [field |-> "language", value |-> <<"p", "t", "-", "B", "R">>],
     [field |-> "footer", value |-> <<"f">>]}

\* The templates as typed in before their insert.
NewTemplates ==
    LET Hi == <<"h", "i", "\r", "\n">>
        OneParameter == <<"{", "{", "1", "}", "}">>
        Typed(template_name, template, sample_values, header_type, id) ==
            [TemplateDoc(<<>>, header_type, <<DynamicUrlButton>>, "")
                EXCEPT !.template_name = template_name, !.language_code = <<>>,
                       !.template = template, !.sample_values = sample_values,
                       !.id = id]
    IN  {Typed(<<"A", " ", "b">>, Hi, <<>>, "", ""),
         Typed(<<"a", "!">>, OneParameter, <<"x">>, "TEXT", ""),
         Typed(<<"a", "!">>, OneParameter, <<>>, "", ""),
         Typed(<<"1">>, Hi, <<>>, "", ""),
         Typed(<<"a">>, Hi, <<>>, "IMAGE", ""),
         Typed(<<"a">>, Hi, <<>>, "", "777"),
         [Typed(<<"a">>, Hi, <<>>, "", "") EXCEPT !.actual_name = <<"1">>],
         [Typed(<<"a">>, Hi, <<>>, "", "") EXCEPT !.actual_name = <<"A", " ", "b">>]}

\* What the lookup GET comes to: whether it gets an answer, and the
\* templates the provider lists under the name.
Lookups ==
    LET Listed(name, language, fields) ==
            WDict([k \in {"name", "language"} \cup DOMAIN fields |->
                      CASE k = "name" -> PyStr(name)
                        [] k = "language" -> PyStr(language)
                        [] OTHER -> fields[k]])
        En == <<"e", "n">>
    IN  {[ok |-> FALSE, data |-> <<>>],
         [ok |-> FALSE,
          data |-> <<Listed(<<"a", "_", "b">>, En,
                            [id |-> WStr("555"), status |-> PyStr(Approved)])>>],
         [ok |-> TRUE, data |-> <<>>],
         [ok |-> TRUE,
          data |-> <<Listed(<<"a", "_", "b">>, En,
                            [id |-> WStr("555"), status |-> PyStr(Approved)])>>],
         [ok |-> TRUE,
          data |-> <<Listed(<<"a", "_", "b">>, <<"p", "t", "_", "B", "R">>,
                            [id |-> WStr("556"), status |-> PyStr(Approved)])>>],
         [ok |-> TRUE,
          data |-> <<Listed(<<"a", "a">>, En,
                            [id |-> WStr("557"), status |-> PyStr(Rejected)]),
                     Listed(<<"a">>, En, [id |-> WStr("558")]),
                     Listed(<<"a">>, En,
                            [id |-> WStr("777"), status |-> PyStr(Rejected)])>>]}

\* t_locked has one of the locked status words, each in four letter
\* cases: upper, lower, capitalised, alternating.
InitTemplate ==
    LET CaseVariants(word) ==
            {word,
             [i \in 1..Len(word) |-> LowerOf(word[i])],
             [i \in 1..Len(word) |-> IF i = 1 THEN word[i] ELSE LowerOf(word[i])],
             [i \in 1..Len(word) |-> IF i % 2 = 1 THEN LowerOf(word[i]) ELSE word[i]]}
        LockedStatusTexts ==
            UNION {CaseVariants(word) : word \in {Pending, Approved, Rejected}}
    IN
    /\ arg = Null /\ ret = Null /\ pc = "idle"
    /\ accounts \in {("acc1" :> AccountDoc("s", "p1", TRUE)),
                     ("acc1" :> AccountDoc("s", "p1", TRUE))
                         @@ ("acc2" :> AccountDoc("", "p2", FALSE)),
                     ("acc1" :> AccountDoc("s", "p1", TRUE))
                         @@ ("acc2" :> [AccountDoc("", "p2", FALSE)
                                           EXCEPT !.status = "Disabled"])}
    /\ \E locked \in LockedStatusTexts : templates = ExistingTemplates(locked)
    /\ source_docs = <<>>
    /\ whatsapp_messages = <<>>
    /\ notification_logs = <<>>
    /\ error_logs = <<>>
    /\ http = <<>>
    /\ calls = <<>>

\* The record of a call: what was changed or what the provider answered
\* (edit), the document handed to the handler, the record before and after,
\* the requests made, the exception raised and the title it was thrown
\* under.
TemplateCall(op, name, edit, doc, before, after, skip, lookup, raised, title, requests) ==
    [op |-> op, name |-> name, edit |-> edit, doc |-> doc, before |-> before,
     after |-> after, skip |-> skip, lookup |-> lookup, raised |-> raised,
     title |-> title, requests |-> requests]

\* A user edits an existing template and saves it: the record is written
\* unless validate raised.
SaveTemplate ==
    LET Saved(name, edit, before, doc, eff) ==
            /\ templates' = [templates EXCEPT
                                ![name] = IF eff.raised = "" THEN eff.doc ELSE before]
            /\ http' = http \o eff.requests
            /\ error_logs' = error_logs \o eff.errors
            /\ calls' = Append(calls,
                   TemplateCall("save", name, edit, doc, before,
                                IF eff.raised = "" THEN eff.doc ELSE before, FALSE,
                                Null, eff.raised, eff.title, eff.requests))
            /\ UNCHANGED <<accounts, source_docs, whatsapp_messages,
                           notification_logs, callVars>>
        SaveEdited(name, edit, before, doc, upload, outcome) ==
            Saved(name, edit, before, doc,
                  validate(doc, FALSE, doc.language # before.language,
                           DefaultOutgoingAccount, upload, outcome))
    IN  \E name \in DOMAIN templates, edit \in Edits, upload \in {"ok", "error"},
           outcome \in {"ok", "error"} :
            /\ Len(calls) < MaxTemplateCalls
            /\ SaveEdited(name,
                          [field |-> edit.field, value |-> edit.value,
                           upload |-> upload, outcome |-> outcome],
                          templates[name],
                          [templates[name] EXCEPT ![edit.field] = edit.value],
                          upload, outcome)

\* A template is inserted: validate, the insert, then after_insert; nothing
\* is inserted when validate raised.  The create POST comes to a failure,
\* or to the provider's response.
InsertTemplate ==
    LET Inserted(typed, skip, lookup, created, checked, eff) ==
            /\ templates' = IF checked.raised # "" THEN templates
                            ELSE templates @@ ("t_new" :> IF eff.stored THEN eff.doc
                                                          ELSE checked.doc)
            /\ http' = http \o checked.requests
                        \o (IF checked.raised = "" THEN eff.requests ELSE <<>>)
            /\ error_logs' = error_logs \o checked.errors
                              \o (IF checked.raised = "" THEN eff.errors ELSE <<>>)
            /\ calls' = Append(calls,
                   IF checked.raised # ""
                   THEN TemplateCall("insert", "t_new",
                                     [created |-> created,
                                      typed_name |-> typed.actual_name], typed,
                                     Null, Null, skip, lookup, checked.raised,
                                     checked.title, checked.requests)
                   ELSE TemplateCall("after_insert", "t_new",
                                     [created |-> created,
                                      typed_name |-> typed.actual_name],
                                     checked.doc, Null,
                                     IF eff.stored THEN eff.doc ELSE checked.doc, skip,
                                     lookup, eff.raised, "",
                                     checked.requests \o eff.requests))
            /\ UNCHANGED <<accounts, source_docs, whatsapp_messages,
                           notification_logs, callVars>>
        InsertChecked(typed, skip, lookup, created, checked) ==
            Inserted(typed, skip, lookup, created, checked,
                     after_insert(checked.doc, skip, lookup, created))
    IN  \E typed \in NewTemplates, skip \in BOOLEAN, upload \in {"ok", "error"},
           lookup \in Lookups,
           created \in {PyNone,
                        WDict([id |-> WStr("900"), status |-> PyStr(Pending)]),
                        WDict([id |-> WStr("900")])} :
            /\ Len(calls) < MaxTemplateCalls
            /\ "t_new" \notin DOMAIN templates
            /\ InsertChecked(typed, skip, lookup, created,
                             validate(typed, TRUE, TRUE, DefaultOutgoingAccount, upload,
                                      "ok"))

\* A template is deleted: on_trash runs, and the record is removed unless
\* it raised.
DeleteTemplate ==
    LET Deleted(name, before, eff) ==
            /\ templates' = IF eff.raised # "" THEN templates
                            ELSE [n \in DOMAIN templates \ {name} |-> templates[n]]
            /\ http' = http \o eff.requests
            /\ calls' = Append(calls,
                   TemplateCall("on_trash", name, [outcome |-> eff.outcome], before,
                                before, IF eff.raised = "" THEN Null ELSE before,
                                FALSE, Null, eff.raised, "", eff.requests))
            /\ UNCHANGED <<accounts, source_docs, whatsapp_messages,
                           notification_logs, error_logs, callVars>>
    IN  \E name \in DOMAIN templates,
           outcome \in {"ok", "not_found", "error_other", "error_not_json",
                        "error_no_response"} :
            /\ Len(calls) < MaxTemplateCalls
            /\ Deleted(name, templates[name],
                       [outcome |-> outcome] @@ on_trash(templates[name], outcome))

\* fetch() is called: the active accounts come in some order, each has a
\* listing at the provider: empty, a template known here, a new one with
\* every kind of component, one name in two languages, a known and a new
\* template, a known name in another language under another id.
FetchTemplates ==
    LET En == <<"e", "n">>
        ListedTemplate(name, language, status, id, components) ==
            [name |-> name, language |-> language, status |-> status,
             category |-> "MARKETING", id |-> id, components |-> components]
        Body(text, body_text) == [type |-> "BODY", text |-> text, body_text |-> body_text]
        Full ==
            <<[type |-> "HEADER", format |-> "TEXT", text |-> <<"h">>],
              Body(<<"{", "{", "1", "}", "}", "{", "{", "2", "}", "}">>,
                   <<<<<<"x">>, <<"y">>>>>>),
              [type |-> "FOOTER", text |-> <<"f">>],
              [type |-> "BUTTONS",
               buttons |-> <<[type |-> "URL", url |-> <<"u", "/", "{", "{", "1", "}", "}">>],
                             [type |-> "URL", url |-> <<"u">>],
                             [type |-> "QUICK_REPLY", url |-> <<>>]>>]>>
        Listings ==
            {<<>>,
             <<ListedTemplate(<<"a">>, En, Approved, "101", <<Body(<<"h", "i">>, <<>>)>>)>>,
             <<ListedTemplate(<<"n">>, En, Pending, "201", Full)>>,
             <<ListedTemplate(<<"n">>, En, Approved, "201", <<>>),
               ListedTemplate(<<"n">>, <<"p", "t", "_", "B", "R">>, Pending, "202", <<>>)>>,
             <<ListedTemplate(<<"c">>, En, Rejected, "106", <<>>),
               ListedTemplate(<<"m">>, En, Approved, "203",
                              <<[type |-> "HEADER", format |-> "IMAGE"]>>)>>,
             <<ListedTemplate(<<"b">>, <<"p", "t", "_", "B", "R">>, Approved, "302",
                              <<>>)>>}
        ActiveAccounts == {a \in DOMAIN accounts : accounts[a].status = "Active"}
        Orders == {order \in SeqUpTo(ActiveAccounts, 2) :
                      /\ Len(order) = Cardinality(ActiveAccounts)
                      /\ \A a \in ActiveAccounts : \E i \in 1..Len(order) : order[i] = a}
        Fetched(order, listings, outcome, eff) ==
            /\ templates' = eff.templates
            /\ http' = http \o eff.requests
            /\ calls' = Append(calls,
                   TemplateCall("fetch", "",
                                [order |-> order, listings |-> listings,
                                 outcome |-> outcome],
                                Null, Null, Null, FALSE, Null, eff.raised, "",
                                eff.requests))
            /\ UNCHANGED <<accounts, source_docs, whatsapp_messages,
                           notification_logs, error_logs, callVars>>
    IN  \E order \in Orders, listings \in [DOMAIN accounts -> Listings],
           outcome \in {"ok", "error"} :
            /\ Len(calls) < MaxTemplateCalls
            /\ Fetched(order, listings, outcome, fetch(order, listings, outcome))

NextTemplate == SaveTemplate \/ InsertTemplate \/ DeleteTemplate \/ FetchTemplates

SpecTemplate == InitTemplate /\ [][NextTemplate]_vars

(***************************************************************************)
(* C9: a template with a locked status is not updated at the provider.     *)
(***************************************************************************)
\* status is `word` in some letter case.
SameWord(status, word) ==
    /\ Len(status) = Len(word)
    /\ \A i \in 1..Len(word) : status[i] \in {word[i], LowerOf(word[i])}

IsLocked(status) == \E word \in {Pending, Approved, Rejected} : SameWord(status, word)

RequestsTo(requests, endpoint) == SelectSeq(requests, LAMBDA r : r.endpoint = endpoint)

\* C9: saving an existing template that has a provider id and whose status
\* is PENDING, APPROVED or REJECTED in any letter case makes no update
\* request and leaves the provider id as it was; the edit is in the record
\* when the save went through.
C9_LockedTemplateNotUpdated ==
    \A i \in 1..Len(calls) :
        (/\ calls[i].op = "save"
         /\ calls[i].doc.id # ""
         /\ IsLocked(calls[i].doc.status))
        => /\ RequestsTo(calls[i].requests, "update_template") = <<>>
           /\ calls[i].after.id = calls[i].before.id
           /\ calls[i].raised = ""
              => calls[i].after[calls[i].edit.field] = calls[i].edit.value

\* A template whose status is "rEjEcTeD" is edited and saved: no request at
\* all, the new body is in the record.
C9_Witness ==
    /\ Len(calls) = 1
    /\ calls[1].op = "save" /\ calls[1].name = "t_locked"
    /\ calls[1].doc.status = <<"r", "E", "j", "E", "c", "T", "e", "D">>
    /\ calls[1].raised = ""
    /\ templates["t_locked"].template = <<"y", "o">>
    /\ templates["t_locked"].id = "101"
    /\ http = <<>>

(***************************************************************************)
(* C10: after_insert looks the template up before it creates it.           *)
(***************************************************************************)
\* The templates the provider lists with the name and language the call
\* registers the template under.
ListedMatches(c) ==
    SelectSeq(c.lookup.data,
              LAMBDA template :
                  /\ DictGet(template, "name", PyNone)
                         = PyStr(WithActualName(c.doc).actual_name)
                  /\ DictGet(template, "language", PyNone) = PyStr(c.doc.language_code))

\* The record holds the id and the status of the listed template (PENDING
\* when it lists no status).
SyncedFrom(doc, template) ==
    /\ doc.id = IdOf(DictGet(template, "id", PyNone))
    /\ doc.status = StatusOf(DictGet(template, "status", PyStr(Pending)))

C10_WitnessCreated ==
    /\ Len(calls) = 1
    /\ calls[1].op = "after_insert"
    /\ Len(http) = 2
    /\ http[1].endpoint = "message_templates" /\ http[2].endpoint = "create_template"
    /\ templates["t_new"].id = "900"

(***************************************************************************)
(* Webhook Receiver (utils/webhook.py).                                     *)
(*                                                                         *)
(* A step on a payload value comes to a result: the exception it raised    *)
(* ("" for none) and its value.  A step on a raised result is that result, *)
(* as an expression stops at its first exception.                          *)
(***************************************************************************)
Ok(v) == [exc |-> "", v |-> v]
Raise(e) == [exc |-> e, v |-> PyNone]

EmptyDict == WDict(<<>>)
EmptyList == WList(<<>>)

\* r[key] for a text key: only a dict has text keys.
Item(r, key) ==
    IF r.exc # "" THEN r
    ELSE IF r.v.kind # "dict" THEN Raise("TypeError")
    ELSE IF key \in DOMAIN r.v.d THEN Ok(r.v.d[key])
    ELSE Raise("KeyError")

\* r[0]: the first element of a list, the first character of a text (a
\* text again); a dict of a JSON payload has no key 0.
First(r) ==
    IF r.exc # "" THEN r
    ELSE CASE r.v.kind = "list" ->
                IF r.v.l # <<>> THEN Ok(r.v.l[1]) ELSE Raise("IndexError")
           [] r.v.kind = "dict" -> Raise("KeyError")
           [] r.v.kind = "text" -> IF r.v.t # "" THEN r ELSE Raise("IndexError")
           [] r.v.kind = "str" ->
                IF r.v.s # <<>> THEN Ok(PyStr(<<r.v.s[1]>>)) ELSE Raise("IndexError")
           [] OTHER -> Raise("TypeError")

\* r.get(key, default): only a dict has get.
Get(r, key, default) ==
    IF r.exc # "" THEN r
    ELSE IF r.v.kind = "dict" THEN Ok(DictGet(r.v, key, default))
    ELSE Raise("AttributeError")

\* `for x in r`: the elements of a list, the keys of a dict, the characters
\* of a text; the value of the result is a sequence.
Iter(r) ==
    LET KeysOf(d) ==
            LET keys == CHOOSE s \in [1..Cardinality(DOMAIN d) -> DOMAIN d] :
                            \A k \in DOMAIN d : \E i \in DOMAIN s : s[i] = k
            IN  [i \in DOMAIN keys |-> WStr(keys[i])]
    IN
    IF r.exc # "" THEN r
    ELSE CASE r.v.kind = "list" -> Ok(r.v.l)
           [] r.v.kind = "dict" -> Ok(IF DOMAIN r.v.d = {} THEN <<>> ELSE KeysOf(r.v.d))
           [] r.v.kind = "text" -> Ok(IF r.v.t = "" THEN <<>> ELSE <<r.v>>)
           [] r.v.kind = "str" -> Ok([i \in DOMAIN r.v.s |-> PyStr(<<r.v.s[i]>>)])
           [] OTHER -> Raise("TypeError")

\* The first exception of results evaluated in order, "" when none raised.
FirstExc(rs) ==
    IF \A i \in DOMAIN rs : rs[i].exc = "" THEN ""
    ELSE rs[CHOOSE i \in DOMAIN rs :
               rs[i].exc # "" /\ \A j \in 1..(i - 1) : rs[j].exc = ""].exc

(***************************************************************************)
(* get(): the verification handshake.                                      *)
(***************************************************************************)
\* frappe.db.get_value('WhatsApp Account', verify_token,
\* 'webhook_verify_token'): the field of the account NAMED verify_token.
StoredVerifyToken(verify_token) ==
    IF verify_token.kind = "text" /\ verify_token.t \in DOMAIN accounts
    THEN WStr(accounts[verify_token.t].webhook_verify_token)
    ELSE PyNone

TokenDiffersNever(verify_token, webhook_verify_token) == FALSE

\* hub.verify_token != webhook_verify_token
TokenDiffers(verify_token, webhook_verify_token) == verify_token # webhook_verify_token

\* Lines 22-32, webhook_verify_token being what get_value gave.
get(hub_challenge, verify_token) ==
    LET Checked(webhook_verify_token) ==
            IF ~Truthy(webhook_verify_token)
            THEN [raised |-> "ValidationError",
                  message |-> "No matching WhatsApp account", response |-> Null]
            ELSE IF TokenDiffers(verify_token, webhook_verify_token)
            THEN [raised |-> "ValidationError",
                  message |-> "Verify token does not match", response |-> Null]
            ELSE [raised |-> "", message |-> "",
                  response |-> [status |-> 200, body |-> hub_challenge]]
    IN  Checked(StoredVerifyToken(verify_token))

(***************************************************************************)
(* post(): the event envelope.                                             *)
(***************************************************************************)
\* Line 46: data["entry"][0]["changes"][0]["value"].get("messages", [])
MessagesOf(data) ==
    Get(Item(First(Item(First(Item(Ok(data), "entry")), "changes")), "value"),
        "messages", EmptyList)

\* Line 47: the chain of get() down to metadata.phone_number_id.
PhoneIdOf(data) ==
    Get(Get(Get(First(Get(First(Get(Ok(data), "entry", WList(<<EmptyDict>>))),
                          "changes", WList(<<EmptyDict>>))),
                "value", EmptyDict),
            "metadata", EmptyDict),
        "phone_number_id", PyNone)

\* Lines 45-49: only a KeyError of the try block is caught, and the
\* alternate reading of the envelope (line 49) is outside any try.
ParseEnvelope(data) ==
    LET Tried(messages, phone_id) ==
            IF messages.exc # ""
            THEN [exc |-> messages.exc, messages |-> EmptyList, phone_id |-> PyNone]
            ELSE [exc |-> phone_id.exc, messages |-> messages.v,
                  phone_id |-> phone_id.v]
        Caught(tried, alternate) ==
            IF tried.exc = "KeyError"
            THEN [exc |-> alternate.exc, messages |-> alternate.v, phone_id |-> PyNone]
            ELSE tried
    IN  Caught(Tried(MessagesOf(data), PhoneIdOf(data)),
               Get(Item(First(Item(Item(Ok(data), "entry"), "changes")), "value"),
                   "messages", EmptyList))

\* Lines 50-58: next() of the generator gives the profile name of the
\* first contact met; the generator goes no further.
sender_profile_name(data) ==
    LET NoName(exc) == [exc |-> exc, found |-> FALSE, v |-> PyNone]
        NameOfContact(name) == [exc |-> name.exc, found |-> name.exc = "", v |-> name.v]
        RECURSIVE NameInChanges(_, _)
        NameInChanges(changes, i) ==
            IF i > Len(changes) THEN NoName("")
            ELSE LET contacts == Iter(Get(Get(Ok(changes[i]), "value", EmptyDict),
                                          "contacts", EmptyList))
                 IN  IF contacts.exc # "" THEN NoName(contacts.exc)
                     ELSE IF Len(contacts.v) > 0
                     THEN NameOfContact(Get(Get(Ok(contacts.v[1]), "profile",
                                                EmptyDict), "name", PyNone))
                     ELSE NameInChanges(changes, i + 1)
        RECURSIVE NameInEntries(_, _)
        NameInEntries(entries, i) ==
            IF i > Len(entries) THEN NoName("")
            ELSE LET changes == Iter(Get(Ok(entries[i]), "changes", EmptyList))
                 IN  IF changes.exc # "" THEN NoName(changes.exc)
                     ELSE LET name == NameInChanges(changes.v, 1)
                          IN  IF name.exc # "" \/ name.found THEN name
                              ELSE NameInEntries(entries, i + 1)
        InEntries(entries) ==
            IF entries.exc # "" THEN NoName(entries.exc)
            ELSE NameInEntries(entries.v, 1)
    IN  InEntries(Iter(Get(Ok(data), "entry", EmptyList)))

(***************************************************************************)
(* post(): the inbound-message branch.                                     *)
(***************************************************************************)
\* An Incoming WhatsApp Message record.
IncomingMessage(from, message, message_id, reply_to, is_reply, content_type, profile_name, account) ==
    [type |-> "Incoming", from |-> from, message |-> message,
     message_id |-> message_id, reply_to_message_id |-> reply_to,
     is_reply |-> is_reply, content_type |-> content_type,
     profile_name |-> profile_name, whatsapp_account |-> account, attach |-> "",
     status |-> PyNone, conversation_id |-> PyNone]

\* Lines 66-180, one message: what its handling comes to is the exception
\* of the first failing read, or the record inserted; `media` is what the
\* two downloads of a media message come to.  `resaved` holds the message
\* id of a record that was saved again after its insert (lines 155-156).
HandleMessage(message, profile_name, account, media) ==
    LET Written(reads, doc, requests, resaved) ==
            IF FirstExc(reads) # ""
            THEN [exc |-> FirstExc(reads), msgs |-> <<>>, requests |-> requests,
                  resaved |-> <<>>]
            ELSE [exc |-> "", msgs |-> <<doc>>, requests |-> requests,
                  resaved |-> resaved]
        Handled(reads, doc, requests) == Written(reads, doc, requests, <<>>)
        \* 'forwarded' in context
        HasForwarded(context) ==
            CASE context.kind = "dict" -> "forwarded" \in DOMAIN context.d
              [] context.kind = "list" ->
                    \E i \in DOMAIN context.l : context.l[i] = WStr("forwarded")
              [] OTHER -> FALSE
        \* message[message_type]
        ItemOfType(message_type) ==
            CASE message_type.kind = "text" -> Item(Ok(message), message_type.t)
              [] message_type.kind \in {"dict", "list"} -> Raise("TypeError")
              [] OTHER -> Raise("KeyError")
        MediaRequest(endpoint, media_id) ==
            [method |-> "GET", endpoint |-> endpoint, account |-> account,
             id |-> media_id]
        \* Lines 108-156.
        MediaMessage(message_type, from, id, reply_to, is_reply, media_id, caption) ==
            IF media_id.exc # "" THEN Handled(<<media_id>>, Null, <<>>)
            ELSE IF media = "meta_error"
            THEN [exc |-> "", msgs |-> <<>>,
                  requests |-> <<MediaRequest("media", media_id.v)>>,
                  resaved |-> <<>>]
            ELSE IF media = "no_mime_type"
            THEN [exc |-> "AttributeError", msgs |-> <<>>,
                  requests |-> <<MediaRequest("media", media_id.v)>>,
                  resaved |-> <<>>]
            ELSE IF media = "download_error"
            THEN [exc |-> "", msgs |-> <<>>,
                  requests |-> <<MediaRequest("media", media_id.v),
                                 MediaRequest("media_url", media_id.v)>>,
                  resaved |-> <<>>]
            ELSE Written(<<from, id, caption>>,
                         [IncomingMessage(from.v, caption.v, id.v, reply_to.v, is_reply,
                                          message_type, profile_name, account)
                             EXCEPT !.attach = "/files/hash.ext"],
                         <<MediaRequest("media", media_id.v),
                           MediaRequest("media_url", media_id.v)>>,
                         <<id.v>>)
        \* The record of a message whose text is read at `body`.
        Plain(message_type, from, id, reply_to, is_reply, body, content_type) ==
            Handled(<<reply_to, from, body, id>>,
                    IncomingMessage(from.v, body.v, id.v, reply_to.v, is_reply,
                                    content_type, profile_name, account),
                    <<>>)
        \* Lines 82-93: the reaction names the message it replies to.
        Reaction(message_type, from, id, reply_to, emoji, reacted_to) ==
            Handled(<<reply_to, from, emoji, reacted_to, id>>,
                    IncomingMessage(from.v, emoji.v, id.v, reacted_to.v, FALSE,
                                    message_type, profile_name, account),
                    <<>>)
        \* Lines 170-180: any other type.
        Unknown(message_type, from, id, reply_to, body) ==
            Handled(<<reply_to, from, id, body>>,
                    IncomingMessage(from.v, body.v, id.v, PyNone, FALSE, message_type,
                                    profile_name, account),
                    <<>>)
        OfType(message_type, from, id, reply_to, is_reply) ==
            CASE message_type = WStr("text") ->
                    Plain(message_type, from, id, reply_to, is_reply,
                          Item(Item(Ok(message), "text"), "body"), message_type)
              [] message_type = WStr("reaction") ->
                    Reaction(message_type, from, id, reply_to,
                             Item(Item(Ok(message), "reaction"), "emoji"),
                             Item(Item(Ok(message), "reaction"), "message_id"))
              [] message_type = WStr("interactive") ->
                    Plain(message_type, from, id, reply_to, is_reply,
                          Item(Item(Item(Ok(message), "interactive"), "nfm_reply"),
                               "response_json"),
                          WStr("flow"))
              [] message_type \in {WStr("image"), WStr("audio"), WStr("video"),
                                   WStr("document")} ->
                    IF reply_to.exc # "" THEN Handled(<<reply_to>>, Null, <<>>)
                    ELSE MediaMessage(message_type, from, id, reply_to, is_reply,
                                      Item(ItemOfType(message_type), "id"),
                                      Get(ItemOfType(message_type), "caption",
                                          WStr("/files/hash.ext")))
              [] message_type = WStr("button") ->
                    Plain(message_type, from, id, reply_to, is_reply,
                          Item(Item(Ok(message), "button"), "text"), message_type)
              [] OTHER ->
                    Unknown(message_type, from, id, reply_to,
                            IF message_type.kind = "text"
                            THEN Get(ItemOfType(message_type), message_type.t, PyNone)
                            ELSE ItemOfType(message_type))
        \* Lines 66-68: the type and the reply context are read first.
        WithContext(message_type, context, is_reply) ==
            IF message_type.exc # "" THEN Handled(<<message_type>>, Null, <<>>)
            ELSE IF context.exc # "" THEN Handled(<<context>>, Null, <<>>)
            ELSE OfType(message_type.v, Item(Ok(message), "from"),
                        Item(Ok(message), "id"),
                        IF is_reply THEN Item(Item(Ok(message), "context"), "id")
                        ELSE Ok(PyNone),
                        is_reply)
        ReadContext(message_type, context) ==
            WithContext(message_type, context,
                        /\ context.exc = ""
                        /\ Truthy(context.v)
                        /\ ~HasForwarded(context.v))
    IN  ReadContext(Item(Ok(message), "type"), Get(Ok(message), "context", PyNone))

\* A plausible slip: the loop is left after the first message.
HandleMessagesFirst(messages, i, profile_name, account, media, done) ==
    LET After(handled) ==
            [exc |-> handled.exc, msgs |-> done.msgs \o handled.msgs,
             requests |-> done.requests \o handled.requests,
             resaved |-> done.resaved \o handled.resaved]
    IN  IF i > Len(messages) \/ done.exc # "" THEN done
        ELSE After(HandleMessage(messages[i], profile_name, account, media))

\* Lines 65-180: the messages in list order, up to the first exception.
RECURSIVE HandleMessages(_, _, _, _, _, _)
HandleMessages(messages, i, profile_name, account, media, done) ==
    LET After(handled) ==
            [exc |-> handled.exc, msgs |-> done.msgs \o handled.msgs,
             requests |-> done.requests \o handled.requests,
             resaved |-> done.resaved \o handled.resaved]
    IN  IF i > Len(messages) \/ done.exc # "" THEN done
        ELSE HandleMessages(messages, i + 1, profile_name, account, media,
                            After(HandleMessage(messages[i], profile_name, account,
                                                media)))

(***************************************************************************)
(* post(): the status branch.                                              *)
(***************************************************************************)
\* What a status update comes to: the exception, the error log titles, the
\* message and template records after it, the requests sent.
StatusResult(exc, errors, messages, new_templates, requests) ==
    [exc |-> exc, errors |-> errors, messages |-> messages,
     templates |-> new_templates, requests |-> requests]

StatusUnchanged(exc, errors) ==
    StatusResult(exc, errors, whatsapp_messages, templates, <<>>)

\* Line 306: the records whose message_id is id.
MessagesWithId(id) ==
    {i \in DOMAIN whatsapp_messages : whatsapp_messages[i].message_id = id}

\* A plausible slip: the conversation id is stored whether carried or not.
update_message_status_conversation(data, pick) ==
    LET Read(id, status, conversation) ==
            IF FirstExc(<<id, status, conversation>>) # ""
            THEN StatusUnchanged(FirstExc(<<id, status, conversation>>), <<>>)
            ELSE IF pick = 0 THEN StatusUnchanged("DoesNotExistError", <<>>)
            ELSE StatusResult("", <<>>,
                              [whatsapp_messages EXCEPT
                                  ![pick] = [@ EXCEPT !.status = status.v,
                                                      !.conversation_id = conversation.v]],
                              templates, <<>>)
    IN  Read(Item(First(Item(Ok(data), "statuses")), "id"),
             Item(First(Item(Ok(data), "statuses")), "status"),
             Get(Get(First(Item(Ok(data), "statuses")), "conversation", EmptyDict),
                 "id", PyNone))

\* A plausible slip: the status is set on every record, not on the one
\* found by the message id.
update_message_status_all(data, pick) ==
    LET Read(id, status, conversation) ==
            IF FirstExc(<<id, status, conversation>>) # ""
            THEN StatusUnchanged(FirstExc(<<id, status, conversation>>), <<>>)
            ELSE IF pick = 0 THEN StatusUnchanged("DoesNotExistError", <<>>)
            ELSE StatusResult("", <<>>,
                              [k \in DOMAIN whatsapp_messages |->
                                  [whatsapp_messages[k] EXCEPT !.status = status.v]],
                              templates, <<>>)
    IN  Read(Item(First(Item(Ok(data), "statuses")), "id"),
             Item(First(Item(Ok(data), "statuses")), "status"),
             Get(Get(First(Item(Ok(data), "statuses")), "conversation", EmptyDict),
                 "id", PyNone))

\* `pick` is the record that get_value gives among those with the message
\* id, 0 for None: get_doc of the name None finds no record.
update_message_status(data, pick) ==
    LET WithStatus(doc, status, conversation) ==
            [doc EXCEPT !.status = status,
                        !.conversation_id =
                            IF Truthy(conversation) THEN conversation ELSE @]
        Read(id, status, conversation) ==
            IF FirstExc(<<id, status, conversation>>) # ""
            THEN StatusUnchanged(FirstExc(<<id, status, conversation>>), <<>>)
            ELSE IF pick = 0 THEN StatusUnchanged("DoesNotExistError", <<>>)
            ELSE StatusResult("", <<>>,
                              [whatsapp_messages EXCEPT
                                  ![pick] = WithStatus(@, status.v, conversation.v)],
                              templates, <<>>)
    IN  Read(Item(First(Item(Ok(data), "statuses")), "id"),
             Item(First(Item(Ok(data), "statuses")), "status"),
             Get(Get(First(Item(Ok(data), "statuses")), "conversation", EmptyDict),
                 "id", PyNone))

\* A plausible slip: the SQL UPDATE without its WHERE clause.
update_template_status_every(data, outcome) ==
    LET Failed == StatusUnchanged("", <<"Template status update error">>)
        \* Line 259: the templates whose id is the id of the event.
        TemplatesWithId(event_id) ==
            {n \in DOMAIN templates :
                templates[n].id # "" /\ WStr(templates[n].id) = event_id}
        \* Line 265: the templates whose actual_name is the name of the event.
        TemplatesNamed(event_name) ==
            {n \in DOMAIN templates : PyStr(templates[n].actual_name) = event_name}
        \* The SQL UPDATE of lines 272-277 and 288-293.
        SetStatus(names, status) ==
            [n \in DOMAIN templates |->
                [templates[n] EXCEPT !.status = status]]
        \* Lines 269-277: the template takes the id and is saved, which
        \* validates it; then the status is set on every template of the name.
        TookId(name, status, names, saved) ==
            IF saved.raised # ""
            THEN StatusResult("", <<"Template status update error">>, whatsapp_messages,
                              templates, saved.requests)
            ELSE StatusResult("", saved.errors, whatsapp_messages,
                              [n \in DOMAIN templates |->
                                  IF n = name
                                  THEN [saved.doc EXCEPT !.status = status]
                                  ELSE IF n \in names
                                  THEN [templates[n] EXCEPT !.status = status]
                                  ELSE templates[n]],
                              saved.requests)
        ByName(name, id, status, names) ==
            IF templates[name].id # ""
            THEN StatusResult("", <<>>, whatsapp_messages, SetStatus(names, status),
                              <<>>)
            ELSE TookId(name, status, names,
                        validate([templates[name] EXCEPT !.id = IdOf(id)], FALSE, FALSE,
                                 DefaultOutgoingAccount, "ok", outcome))
        Read(event, id, name) ==
            IF ~Truthy(event) \/ ~Truthy(id) THEN Failed
            ELSE IF TemplatesWithId(id) # {}
            THEN StatusResult("", <<>>, whatsapp_messages,
                              SetStatus(TemplatesWithId(id), Upper(PyToStr(event))),
                              <<>>)
            ELSE IF Truthy(name) /\ TemplatesNamed(name) # {}
            THEN ByName(CHOOSE n \in TemplatesNamed(name) : TRUE, id,
                        Upper(PyToStr(event)), TemplatesNamed(name))
            ELSE Failed
        \* data.get(first) or data.get(second)
        Either(first, second) ==
            IF Truthy(DictGet(data, first, PyNone)) THEN DictGet(data, first, PyNone)
            ELSE DictGet(data, second, PyNone)
    IN  IF data.kind # "dict" THEN Failed
        ELSE Read(Either("event", "status"), Either("message_template_id", "id"),
                  DictGet(data, "message_template_name", PyNone))

\* Every exception inside is logged under one title (line 297); `outcome`
\* is what the update request of a template saved on the way comes to.
update_template_status(data, outcome) ==
    LET Failed == StatusUnchanged("", <<"Template status update error">>)
        \* Line 259: the templates whose id is the id of the event.
        TemplatesWithId(event_id) ==
            {n \in DOMAIN templates :
                templates[n].id # "" /\ WStr(templates[n].id) = event_id}
        \* Line 265: the templates whose actual_name is the name of the event.
        TemplatesNamed(event_name) ==
            {n \in DOMAIN templates : PyStr(templates[n].actual_name) = event_name}
        \* The SQL UPDATE of lines 272-277 and 288-293.
        SetStatus(names, status) ==
            [n \in DOMAIN templates |->
                IF n \in names THEN [templates[n] EXCEPT !.status = status]
                ELSE templates[n]]
        \* Lines 269-277: the template takes the id and is saved, which
        \* validates it; then the status is set on every template of the name.
        TookId(name, status, names, saved) ==
            IF saved.raised # ""
            THEN StatusResult("", <<"Template status update error">>, whatsapp_messages,
                              templates, saved.requests)
            ELSE StatusResult("", saved.errors, whatsapp_messages,
                              [n \in DOMAIN templates |->
                                  IF n = name
                                  THEN [saved.doc EXCEPT !.status = status]
                                  ELSE IF n \in names
                                  THEN [templates[n] EXCEPT !.status = status]
                                  ELSE templates[n]],
                              saved.requests)
        ByName(name, id, status, names) ==
            IF templates[name].id # ""
            THEN StatusResult("", <<>>, whatsapp_messages, SetStatus(names, status),
                              <<>>)
            ELSE TookId(name, status, names,
                        validate([templates[name] EXCEPT !.id = IdOf(id)], FALSE, FALSE,
                                 DefaultOutgoingAccount, "ok", outcome))
        Read(event, id, name) ==
            IF ~Truthy(event) \/ ~Truthy(id) THEN Failed
            ELSE IF TemplatesWithId(id) # {}
            THEN StatusResult("", <<>>, whatsapp_messages,
                              SetStatus(TemplatesWithId(id), Upper(PyToStr(event))),
                              <<>>)
            ELSE IF Truthy(name) /\ TemplatesNamed(name) # {}
            THEN ByName(CHOOSE n \in TemplatesNamed(name) : TRUE, id,
                        Upper(PyToStr(event)), TemplatesNamed(name))
            ELSE Failed
        \* data.get(first) or data.get(second)
        Either(first, second) ==
            IF Truthy(DictGet(data, first, PyNone)) THEN DictGet(data, first, PyNone)
            ELSE DictGet(data, second, PyNone)
    IN  IF data.kind # "dict" THEN Failed
        ELSE Read(Either("event", "status"), Either("message_template_id", "id"),
                  DictGet(data, "message_template_name", PyNone))

update_status(data, pick, outcome) ==
    LET OfField(field, value) ==
            IF field.exc # "" THEN StatusUnchanged(field.exc, <<>>)
            ELSE IF field.v = WStr("message_template_status_update")
            THEN IF Truthy(value.v) THEN update_template_status(value.v, outcome)
                 ELSE StatusUnchanged("", <<"Webhook template status error">>)
            ELSE IF field.v = WStr("messages")
            THEN IF Truthy(value.v) THEN update_message_status(value.v, pick)
                 ELSE StatusUnchanged("", <<"Webhook message status error">>)
            ELSE StatusUnchanged("", <<>>)
    IN  IF ~Truthy(data) THEN StatusUnchanged("", <<>>)
        ELSE OfField(Get(Ok(data), "field", PyNone), Get(Ok(data), "value", PyNone))

(***************************************************************************)
(* post(), whole.  The record of the payload is inserted first; what was   *)
(* written before an exception is kept as written (the rollback of the     *)
(* request is the framework's).  `resolved` is what                        *)
(* get_whatsapp_account(phone_id) gives, "" for None (line 60).            *)
(***************************************************************************)
post(data, resolved, media, pick, outcome) ==
    LET Result(stage, raised, errors, msgs, messages, new_templates, requests) ==
            [stage |-> stage, raised |-> raised, errors |-> errors, msgs |-> msgs,
             messages |-> messages, templates |-> new_templates,
             requests |-> requests, resaved |-> <<>>]
        Ended(stage, raised) ==
            Result(stage, raised, <<>>, <<>>, whatsapp_messages, templates, <<>>)
        OfStatus(updated) ==
            Result("status", updated.exc, updated.errors, <<>>, updated.messages,
                   updated.templates, updated.requests)
        \* Lines 183-193: the first change of the envelope, in either shape.
        StatusBranch(changes, alternate) ==
            IF changes.exc = "" THEN OfStatus(update_status(changes.v, pick, outcome))
            ELSE IF changes.exc \notin {"KeyError", "IndexError", "TypeError"}
            THEN Ended("status", changes.exc)
            ELSE IF alternate.exc = ""
            THEN OfStatus(update_status(alternate.v, pick, outcome))
            ELSE IF alternate.exc \notin {"KeyError", "IndexError", "TypeError"}
            THEN Ended("status", alternate.exc)
            ELSE Result("status", "", <<"Webhook structure error">>, <<>>,
                        whatsapp_messages, templates, <<>>)
        OfMessages(handled) ==
            [Result("messages", handled.exc, <<>>, handled.msgs, whatsapp_messages,
                    templates, handled.requests)
                EXCEPT !.resaved = handled.resaved]
        MessagesBranch(messages, profile_name) ==
            IF messages.exc # "" THEN Ended("messages", messages.exc)
            ELSE OfMessages(HandleMessages(messages.v, 1, profile_name, resolved, media,
                                           [exc |-> "", msgs |-> <<>>,
                                            requests |-> <<>>, resaved |-> <<>>]))
        \* Lines 43-64.
        Parsed(envelope, name) ==
            IF envelope.exc # "" THEN Ended("envelope", envelope.exc)
            ELSE IF name.exc # "" THEN Ended("profile_name", name.exc)
            ELSE IF ~Truthy(envelope.phone_id) \/ resolved = ""
            THEN Ended("no_account", "")
            ELSE IF Truthy(envelope.messages)
            THEN MessagesBranch(Iter(Ok(envelope.messages)), name.v)
            ELSE StatusBranch(First(Item(First(Item(Ok(data), "entry")), "changes")),
                              First(Item(Item(Ok(data), "entry"), "changes")))
    IN  Parsed(ParseEnvelope(data), sender_profile_name(data))

(***************************************************************************)
(* The Webhook Receiver as a state machine.                                *)
(***************************************************************************)
MaxWebhookCalls == 2

\* The envelope of one change.
Envelope(change) ==
    WDict([entry |-> WList(<<WDict([changes |-> WList(<<change>>)])>>)])

Change(field, value) == WDict([field |-> WStr(field), value |-> value])

Metadata == WDict([phone_number_id |-> WStr("p1")])

\* Envelopes with inbound messages of every type, with and without a reply
\* context, two messages in one envelope, messages with a field missing.
InboundPayloads ==
    LET Contacts == WList(<<WDict([profile |-> WDict([name |-> WStr("Ann")])])>>)
        Inbound(messages) ==
            Envelope(Change("messages",
                            WDict([metadata |-> Metadata, contacts |-> Contacts,
                                   messages |-> WList(messages)])))
        Message(type, id, content) ==
            WDict([type |-> WStr(type), from |-> WStr("911"), id |-> WStr(id)]
                      @@ content)
        Hello == WDict([body |-> WStr("hello")])
        TextMessage(id) == Message("text", id, [text |-> Hello])
        ButtonMessage(id) ==
            Message("button", id, [button |-> WDict([text |-> WStr("Yes")])])
    IN  {Inbound(<<TextMessage("w1")>>),
         Inbound(<<Message("text", "w2", [text |-> Hello,
                                          context |-> WDict([id |-> WStr("m1")])])>>),
         Inbound(<<Message("text", "w3",
                           [text |-> Hello,
                            context |-> WDict([forwarded |-> WStr("true")])])>>),
         Inbound(<<Message("reaction", "w4",
                           [reaction |-> WDict([emoji |-> WStr("+1"),
                                                message_id |-> WStr("m1")])])>>),
         Inbound(<<Message("interactive", "w5",
                           [interactive |->
                               WDict([nfm_reply |->
                                         WDict([response_json |-> WStr("{}")])])])>>),
         Inbound(<<ButtonMessage("w6")>>),
         Inbound(<<Message("image", "w7", [image |-> WDict([id |-> WStr("media1")])])>>),
         Inbound(<<Message("location", "w8",
                           [location |-> WDict([latitude |-> WStr("1.5")])])>>),
         Inbound(<<TextMessage("w1"), ButtonMessage("w6")>>),
         Inbound(<<TextMessage("w1"), Message("text", "w9", <<>>)>>),
         Inbound(<<WDict([from |-> WStr("911"), id |-> WStr("w10")])>>)}

\* A delivery-status envelope.
Statuses(statuses) ==
    Envelope(Change("messages", WDict([metadata |-> Metadata,
                                       statuses |-> WList(statuses)])))

StatusPayloads ==
    {Statuses(<<WDict([id |-> WStr("m1"), status |-> WStr("delivered")])>>),
     Statuses(<<WDict([id |-> WStr("m1"), status |-> WStr("read"),
                       conversation |-> WDict([id |-> WStr("c1")])])>>),
     Statuses(<<WDict([id |-> WStr("w1"), status |-> WStr("read")])>>),
     Statuses(<<WDict([id |-> WStr("zz"), status |-> WStr("sent")])>>),
     Statuses(<<>>)}

\* Template status events: as the provider sends them (no metadata), and
\* with a phone number id; by id, by name, matching nothing, without event.
TemplateStatusPayloads ==
    LET TemplateEvent(fields) ==
            Envelope(Change("message_template_status_update", WDict(fields)))
        Promo == <<"p", "r", "o", "m", "o">>
    IN  {TemplateEvent([event |-> PyStr(Approved), message_template_id |-> WStr("101"),
                        message_template_name |-> PyStr(<<"a">>)]),
         TemplateEvent([metadata |-> Metadata,
                        event |-> PyStr(<<"a", "p", "p", "r", "o", "v", "e", "d">>),
                        message_template_id |-> WStr("101"),
                        message_template_name |-> PyStr(<<"a">>)]),
         TemplateEvent([metadata |-> Metadata, event |-> PyStr(Rejected),
                        message_template_id |-> WStr("999"),
                        message_template_name |-> PyStr(Promo)]),
         TemplateEvent([metadata |-> Metadata, event |-> PyStr(Rejected),
                        message_template_id |-> WStr("999"),
                        message_template_name |-> PyStr(<<"z">>)]),
         TemplateEvent([metadata |-> Metadata, message_template_id |-> WStr("101")])}

\* The shapes a malformed envelope takes: no 'entry', an empty 'entry'
\* list, 'entry' as an object (empty, and with changes), an entry without
\* 'changes', an empty 'changes' list, a change without 'value'.
MalformedPayloads ==
    {EmptyDict,
     WDict([entry |-> EmptyList]),
     WDict([entry |-> EmptyDict]),
     WDict([entry |-> WDict([changes |-> WList(<<WDict([value |-> EmptyDict])>>)])]),
     WDict([entry |-> WList(<<EmptyDict>>)]),
     WDict([entry |-> WList(<<WDict([changes |-> EmptyList])>>)]),
     WDict([entry |-> WList(<<WDict([changes |-> WList(<<EmptyDict>>)])>>)])}

Payloads ==
    InboundPayloads \cup StatusPayloads \cup TemplateStatusPayloads
        \cup MalformedPayloads \cup {Envelope(Change("messages", EmptyDict))}

\* The accounts: tokA is named like its secret, acc1 has the secret s1,
\* acc2 has no secret.  One Outgoing message, m1, has been sent.
InitWebhook ==
    /\ arg = Null /\ ret = Null /\ pc = "idle"
    /\ accounts = ("tokA" :> AccountDoc("tokA", "p0", FALSE))
                      @@ ("acc1" :> AccountDoc("s1", "p1", TRUE))
                      @@ ("acc2" :> AccountDoc("", "p2", FALSE))
    /\ templates =
           ("t_one" :> Registered(<<"a">>, "101", Pending, "", "", "acc1"))
           @@ ("t_other" :> Registered(<<"b">>, "102", Approved, "", "", "acc1"))
           @@ ("t_local" :> Registered(<<"p", "r", "o", "m", "o">>, "", <<>>, "", "",
                                       "acc1"))
    /\ source_docs = <<>>
    /\ whatsapp_messages =
           <<[type |-> "Outgoing", to |-> <<"9", "1", "1">>,
              message_type |-> "Template", message_id |-> WStr("m1"),
              content_type |-> "text", template |-> "t_one",
              template_parameters |-> <<>>, whatsapp_account |-> "acc1",
              reference_name |-> "", status |-> PyNone, conversation_id |-> PyNone]>>
    /\ notification_logs = <<>>
    /\ error_logs = <<>>
    /\ http = <<>>
    /\ calls = <<>>

\* A GET of the provider: the handshake, with no token, an empty one, the
\* secret of tokA, the name of acc1, the secret of acc1, the name of acc2,
\* and an unknown one.
WebhookGet ==
    LET Answered(hub_challenge, verify_token, answer) ==
            /\ calls' = Append(calls,
                   [op |-> "get", hub_challenge |-> hub_challenge,
                    verify_token |-> verify_token, raised |-> answer.raised,
                    response |-> answer.response])
            /\ UNCHANGED <<dbVars, http, callVars>>
    IN  \E hub_challenge \in {WStr("c1")},
           verify_token \in {PyNone, WStr(""), WStr("tokA"), WStr("acc1"), WStr("s1"),
                             WStr("acc2"), WStr("zz")} :
            /\ Len(calls) < MaxWebhookCalls
            /\ Answered(hub_challenge, verify_token, get(hub_challenge, verify_token))

\* A POST of the provider: an event envelope, with the inputs that bear on
\* it: the account the phone id resolves to, what the media downloads come
\* to, which record get_value gives for the status id, what the update
\* request of a saved template comes to.
WebhookPost ==
    LET HasMedia(messages) ==
            /\ messages.exc = "" /\ messages.v.kind = "list"
            /\ \E i \in DOMAIN messages.v.l :
                   Item(Ok(messages.v.l[i]), "type").v
                       \in {WStr("image"), WStr("audio"), WStr("video"),
                            WStr("document")}
        Picks(id) ==
            IF id.exc = "" /\ MessagesWithId(id.v) # {} THEN MessagesWithId(id.v)
            ELSE {0}
        StatusIdOf(data) ==
            Item(First(Item(Item(First(Item(First(Item(Ok(data), "entry")), "changes")),
                                 "value"), "statuses")), "id")
        Applied(data, resolved, eff) ==
            /\ notification_logs' =
                   Append(notification_logs,
                          [template |-> "Webhook", meta_data |-> [json |-> data]])
            /\ whatsapp_messages' = eff.messages \o eff.msgs
            /\ templates' = eff.templates
            /\ error_logs' = error_logs \o eff.errors
            /\ http' = http \o eff.requests
            /\ calls' = Append(calls,
                   [op |-> "post", data |-> data, resolved |-> resolved,
                    stage |-> eff.stage, raised |-> eff.raised,
                    created |-> Len(eff.msgs), resaved |-> eff.resaved])
            /\ UNCHANGED <<accounts, source_docs, callVars>>
    IN  \E data \in Payloads :
        \E resolved \in IF PhoneIdOf(data).exc = "" /\ Truthy(PhoneIdOf(data).v)
                        THEN {"", "acc1"} ELSE {""} :
        \E media \in IF resolved # "" /\ HasMedia(MessagesOf(data))
                     THEN {"ok", "meta_error", "no_mime_type", "download_error"}
                     ELSE {"ok"} :
        \E pick \in Picks(StatusIdOf(data)) :
        \E outcome \in IF resolved # "" /\ data \in TemplateStatusPayloads
                       THEN {"ok", "error"} ELSE {"ok"} :
            /\ Len(calls) < MaxWebhookCalls
            /\ Applied(data, resolved, post(data, resolved, media, pick, outcome))

NextWebhook == WebhookGet \/ WebhookPost

SpecWebhook == InitWebhook /\ [][NextWebhook]_vars

(***************************************************************************)
(* SpecRace: a send and the delivery-status event of its message, handled  *)
(* by two requests.  The request of the send is in two steps, the POST to  *)
(* the provider and the commit of its database writes; the webhook request *)
(* of the status event is one step, and reads what has been committed.     *)
(***************************************************************************)
\* send_template_message up to the return of make_post_request (line 423):
\* the provider has the message, named m2; pc is the position of the send
\* and arg holds what the request is still to write.
RaceSend ==
    LET Posted(self, d, eff) ==
            /\ eff.posts # <<>>
            /\ http' = http \o eff.posts
            /\ arg' = [self |-> self, doc |-> d, eff |-> eff]
    IN  \E self \in Rules, d \in {"d1", "d2"}, outcome \in PostOutcomes :
            /\ pc = "idle"
            /\ Posted(self, d,
                      send_template_message(self, source_docs[d], PyNone, PyNone,
                                            FALSE, outcome, WStr("m2")))
            /\ pc' = "posted"
            /\ UNCHANGED <<dbVars, calls, ret>>

\* The rest of notify (lines 428-494) and the commit at the end of the
\* request: the message record, the notification log, the field set on
\* the source document.
RaceCommit ==
    /\ pc = "posted"
    /\ whatsapp_messages' = whatsapp_messages \o arg.eff.msgs
    /\ notification_logs' = notification_logs \o arg.eff.logs
    /\ error_logs' = error_logs \o arg.eff.errors
    /\ source_docs' =
        [n \in DOMAIN source_docs |->
            IF \E i \in 1..Len(arg.eff.sets) : arg.eff.sets[i].name = n
            THEN [source_docs[n] EXCEPT
                     !.fields[arg.eff.sets[1].fieldname] = arg.eff.sets[1].value]
            ELSE source_docs[n]]
    /\ calls' = Append(calls, [op |-> "send_template_message", self |-> arg.self,
                               doc |-> arg.doc, raised |-> arg.eff.raised,
                               answers |-> arg.eff.answers,
                               saved |-> Len(arg.eff.msgs)])
    /\ pc' = "done"
    /\ UNCHANGED <<accounts, templates, http, arg, ret>>

\* The provider's status event for m2, sent once the POST was accepted and
\* handled by post() in a request of its own: `during` is where the send
\* stood.
RaceStatus ==
    LET Applied(data, resolved, eff) ==
            /\ notification_logs' =
                   Append(notification_logs,
                          [template |-> "Webhook", meta_data |-> [json |-> data]])
            /\ whatsapp_messages' = eff.messages \o eff.msgs
            /\ templates' = eff.templates
            /\ error_logs' = error_logs \o eff.errors
            /\ http' = http \o eff.requests
            /\ calls' = Append(calls,
                   [op |-> "post", data |-> data, resolved |-> resolved,
                    stage |-> eff.stage, raised |-> eff.raised, during |-> pc])
            /\ UNCHANGED <<accounts, source_docs, callVars>>
    IN
    \E data \in {Statuses(<<WDict([id |-> WStr("m2"),
                                   status |-> WStr("delivered")])>>),
                 Statuses(<<WDict([id |-> WStr("m2"), status |-> WStr("read"),
                                   conversation |-> WDict([id |-> WStr("c1")])])>>)},
       resolved \in {"", "acc1"} :
    \E pick \in IF MessagesWithId(WStr("m2")) # {} THEN MessagesWithId(WStr("m2"))
                ELSE {0} :
        /\ pc \in {"posted", "done"}
        /\ arg.eff.answers = <<"ok">>
        /\ \A i \in 1..Len(calls) : calls[i].op # "post"
        /\ Applied(data, resolved, post(data, resolved, "ok", pick, "ok"))

NextRace == RaceSend \/ RaceCommit \/ RaceStatus

SpecRace == InitNotify /\ [][NextRace]_vars

(***************************************************************************)
(* C7: the handshake answers only a token that is a stored secret.         *)
(***************************************************************************)
\* The secrets stored on the accounts.
StoredSecrets ==
    {WStr(accounts[a].webhook_verify_token) :
        a \in {n \in DOMAIN accounts : accounts[n].webhook_verify_token # ""}}

\* C7: a GET is answered (status 200, the challenge as body) only when
\* hub.verify_token equals the webhook_verify_token stored on a WhatsApp
\* Account; for any other token (none, empty, unknown, different from the
\* stored secret) the handler raises and there is no response.
C7_ChallengeOnlyForStoredToken ==
    \A i \in 1..Len(calls) :
        calls[i].op = "get"
        => /\ calls[i].response # Null
              => /\ calls[i].raised = ""
                 /\ calls[i].response = [status |-> 200, body |-> calls[i].hub_challenge]
                 /\ calls[i].verify_token \in StoredSecrets
           /\ calls[i].verify_token \notin StoredSecrets
              => calls[i].raised # "" /\ calls[i].response = Null
           /\ calls[i].raised # "" <=> calls[i].response = Null

\* The GET with the token of the account tokA is answered with the
\* challenge, and the GET with the name of another account has raised.
C7_Witness ==
    /\ Len(calls) = 2
    /\ calls[1].op = "get" /\ calls[1].verify_token = WStr("tokA")
    /\ calls[1].raised = ""
    /\ calls[1].response = [status |-> 200, body |-> WStr("c1")]
    /\ calls[2].op = "get" /\ calls[2].verify_token = WStr("acc1")
    /\ calls[2].raised = "ValidationError" /\ calls[2].response = Null

(***************************************************************************)
(* C8: post() on a malformed payload.                                      *)
(***************************************************************************)
\* The payloads C8 lists: the malformed envelopes, a status event whose
\* message id matches no record, an empty 'statuses' list.
ListedMalformed ==
    MalformedPayloads
        \cup {Statuses(<<WDict([id |-> WStr("zz"), status |-> WStr("sent")])>>),
              Statuses(<<>>)}

\* C8: post() never raises on a malformed payload; for every such payload
\* it writes the payload to the log and returns.
C8_PostNeverRaises ==
    \A i \in 1..Len(calls) :
        (calls[i].op = "post" /\ calls[i].data \in ListedMalformed)
        => calls[i].raised = ""

\* post() of the payload {} has raised KeyError.
C8_RaisedOnEmptyPayload ==
    /\ Len(calls) = 1
    /\ calls[1].op = "post" /\ calls[1].data = EmptyDict
    /\ calls[1].raised = "KeyError" /\ calls[1].stage = "envelope"

(***************************************************************************)
(* C11: deleting a template whose provider copy is already gone.           *)
(***************************************************************************)
\* C11: on_trash never sends more than one request, a DELETE of the
\* template's name, and sends exactly one when the template's account
\* exists; when that DELETE fails with the error title "Message Template
\* Not Found", on_trash does not raise and the local record is deleted.
C11_AlreadyGoneIsDeleted ==
    \A i \in 1..Len(calls) :
        calls[i].op = "on_trash"
        => /\ Len(calls[i].requests) <= 1
           /\ \A k \in 1..Len(calls[i].requests) :
                 /\ calls[i].requests[k].method = "DELETE"
                 /\ calls[i].requests[k].name = calls[i].before.actual_name
           /\ calls[i].before.whatsapp_account \in DOMAIN accounts
              => Len(calls[i].requests) = 1
           /\ (Len(calls[i].requests) = 1 /\ calls[i].edit.outcome = "not_found")
              => calls[i].raised = "" /\ calls[i].after = Null

\* The template t_locked was deleted though its DELETE failed with
\* "Message Template Not Found".
C11_Witness ==
    /\ Len(calls) = 1
    /\ calls[1].op = "on_trash" /\ calls[1].name = "t_locked"
    /\ calls[1].edit.outcome = "not_found"
    /\ calls[1].raised = ""
    /\ Len(http) = 1 /\ http[1].method = "DELETE"
    /\ "t_locked" \notin DOMAIN templates

(***************************************************************************)
(* C12: a failed provider call while creating or updating a template.      *)
(***************************************************************************)
\* C12: a failed provider call is caught and logged and does not abort the
\* operation: after a failed create request after_insert returns without
\* raising, after a failed update request validate returns without raising,
\* an Error Log record is written and the document is stored.
C12_ProviderFailureNotFatal ==
    \A i \in 1..Len(calls) :
        /\ ( /\ calls[i].op = "after_insert"
             /\ RequestsTo(calls[i].requests, "create_template") # <<>>
             /\ calls[i].edit.created = PyNone )
           => calls[i].raised = "" /\ calls[i].after # Null /\ error_logs # <<>>
        /\ ( /\ calls[i].op = "save"
             /\ RequestsTo(calls[i].requests, "update_template") # <<>>
             /\ calls[i].edit.outcome = "error" )
           => /\ calls[i].raised = "" /\ error_logs # <<>>
              /\ calls[i].after[calls[i].edit.field] = calls[i].edit.value

\* The half of C12 about updates: a failed update request leaves validate
\* returning, one Error Log record, and the edit stored.
C12_UpdateFailureNotFatal ==
    \A i \in 1..Len(calls) :
        ( /\ calls[i].op = "save"
          /\ RequestsTo(calls[i].requests, "update_template") # <<>>
          /\ calls[i].edit.outcome = "error" )
        => /\ calls[i].raised = "" /\ error_logs # <<>>
           /\ calls[i].after[calls[i].edit.field] = calls[i].edit.value

\* after_insert has raised after its create request failed.
C12_RaisedOnFailedCreate ==
    /\ Len(calls) = 1
    /\ calls[1].op = "after_insert" /\ calls[1].edit.created = PyNone
    /\ Len(http) = 2 /\ http[2].endpoint = "create_template"
    /\ calls[1].raised = "ValidationError"
    /\ error_logs = <<"WhatsApp Template Creation Error">>

\* A save whose update request failed has returned and stored the edit.
C12_UpdateFailedSaved ==
    /\ Len(calls) = 1
    /\ calls[1].op = "save" /\ calls[1].name = "t_draft"
    /\ calls[1].edit.outcome = "error" /\ calls[1].raised = ""
    /\ Len(http) = 1 /\ http[1].endpoint = "update_template"
    /\ error_logs = <<"Failed to update WhatsApp template">>
    /\ templates["t_draft"].footer = <<"f">>

(***************************************************************************)
(* C13: validate checks the sample values against the parameter count.     *)
(***************************************************************************)
SampleValueTitles == {"Sample Values Required", "Sample Values Mismatch"}

\* C13: when the body of the template has N > 0 parameters, validate raises
\* if the sample values are empty or parse to a number of values other than
\* N, it does not raise on this ground when they parse to exactly N values,
\* and when it raises no update request has been sent to the provider.
C13_SampleValuesChecked ==
    \A i \in 1..Len(calls) :
        LET call == calls[i]
            N == get_parameter_count(call.doc.template)
            Parsed == Len(_parse_sample_values(call.doc.sample_values, PyInt(N)))
        IN  ( /\ call.op \in {"save", "insert", "after_insert"}
              /\ call.doc.template # <<>> /\ N > 0 )
            => /\ (call.doc.sample_values = <<>> \/ Parsed # N)
                  => /\ call.op \in {"save", "insert"}
                     /\ call.raised # ""
                     /\ call.after = call.before
                     /\ RequestsTo(call.requests, "update_template") = <<>>
               /\ (call.doc.sample_values # <<>> /\ Parsed = N)
                  => call.title \notin SampleValueTitles
               /\ call.title \in SampleValueTitles
                  => RequestsTo(call.requests, "update_template") = <<>>

\* The save of t_param with two sample values for its one parameter was
\* refused, nothing was sent and the record is as it was.
C13_Witness ==
    /\ Len(calls) = 1
    /\ calls[1].op = "save" /\ calls[1].name = "t_param"
    /\ calls[1].edit.field = "sample_values"
    /\ calls[1].edit.value = <<"x", ",", "y">>
    /\ calls[1].raised = "ValidationError"
    /\ calls[1].title = "Sample Values Mismatch"
    /\ http = <<>>
    /\ templates["t_param"].sample_values = <<"x">>

(***************************************************************************)
(* C14: one POST runs the inbound-message branch or the status branch.     *)
(***************************************************************************)
MediaTypes == {WStr("image"), WStr("audio"), WStr("video"), WStr("document")}

\* The 'messages' list of the first change of the envelope, empty when the
\* envelope carries none.
FirstChangeMessages(data) ==
    IF MessagesOf(data).exc = "" /\ MessagesOf(data).v.kind = "list"
    THEN MessagesOf(data).v.l ELSE <<>>

\* The ids of the messages of a type other than the media types, in list
\* order.
PlainMessageIds(messages) ==
    LET plain == SelectSeq(messages,
                           LAMBDA m : DictGet(m, "type", PyNone) \notin MediaTypes)
    IN  [i \in 1..Len(plain) |-> DictGet(plain[i], "id", PyNone)]

\* The ids of the records appended by the step that are not of a media type.
PlainCreatedIds ==
    LET created == SubSeq(whatsapp_messages', Len(whatsapp_messages) + 1,
                          Len(whatsapp_messages'))
        plain == SelectSeq(created, LAMBDA doc : doc.content_type \notin MediaTypes)
    IN  [i \in 1..Len(plain) |-> plain[i].message_id]

\* The step is a POST, recorded as the last call.
IsPost == Len(calls') = Len(calls) + 1 /\ calls'[Len(calls')].op = "post"

\* No record that existed before the step was changed by it.
NoStatusApplied ==
    /\ templates' = templates
    /\ SubSeq(whatsapp_messages', 1, Len(whatsapp_messages)) = whatsapp_messages

IsPrefix(s, t) == Len(s) <= Len(t) /\ SubSeq(t, 1, Len(s)) = s

\* C14 as stated: for one POST, when the first change of the envelope
\* carries a non-empty 'messages' list, one Incoming record is created per
\* message of type text, reaction, interactive, button or unknown, in list
\* order, and no status update is applied; when there are no messages no
\* message record is created.
C14_OneRecordPerMessage ==
    [][IsPost =>
        LET messages == FirstChangeMessages(calls'[Len(calls')].data)
        IN  IF messages # <<>>
            THEN NoStatusApplied /\ PlainCreatedIds = PlainMessageIds(messages)
            ELSE Len(whatsapp_messages') = Len(whatsapp_messages)]_vars

\* C14, amended: for one POST, when the first change carries a non-empty
\* 'messages' list no status update is applied, the records created for the
\* messages of type text, reaction, interactive, button or unknown follow
\* the list order, there is one for each of them when the phone number id
\* resolves to an account and the POST does not raise, and none when it
\* resolves to no account; when there are no messages no record is created.
C14_RoutingExclusive ==
    [][IsPost =>
        LET call == calls'[Len(calls')]
            messages == FirstChangeMessages(call.data)
        IN  IF messages # <<>>
            THEN /\ NoStatusApplied
                 /\ IsPrefix(PlainCreatedIds, PlainMessageIds(messages))
                 /\ (call.resolved # "" /\ call.raised = "")
                        => PlainCreatedIds = PlainMessageIds(messages)
                 /\ call.resolved = ""
                        => Len(whatsapp_messages') = Len(whatsapp_messages)
            ELSE Len(whatsapp_messages') = Len(whatsapp_messages)]_vars

\* A POST with a text and a button message has created the two records in
\* list order, after the message m1 that was there, and no template changed.
C14_Witness ==
    /\ Len(calls) = 1 /\ calls[1].op = "post"
    /\ calls[1].stage = "messages" /\ calls[1].raised = ""
    /\ Len(FirstChangeMessages(calls[1].data)) = 2
    /\ Len(whatsapp_messages) = 3
    /\ whatsapp_messages[1].message_id = WStr("m1")
    /\ whatsapp_messages[1].status = PyNone
    /\ whatsapp_messages[2].message_id = WStr("w1")
    /\ whatsapp_messages[2].content_type = WStr("text")
    /\ whatsapp_messages[3].message_id = WStr("w6")
    /\ whatsapp_messages[3].content_type = WStr("button")
    /\ templates["t_one"].status = Pending

\* A POST with one text message whose phone number id resolves to no
\* account has created no record.
C14_DroppedWithoutAccount ==
    /\ Len(calls) = 1 /\ calls[1].op = "post"
    /\ calls[1].stage = "no_account" /\ calls[1].resolved = ""
    /\ Len(FirstChangeMessages(calls[1].data)) = 1
    /\ DictGet(FirstChangeMessages(calls[1].data)[1], "type", PyNone) = WStr("text")
    /\ Len(whatsapp_messages) = 1

(***************************************************************************)
(* C15: a template approval event sets the status of the template.         *)
(***************************************************************************)
\* The value of the first change of the envelope when its field is
\* 'message_template_status_update' and it carries an event and an id, else
\* the empty dict.
TemplateEventOf(data) ==
    LET change == First(Item(First(Item(Ok(data), "entry")), "changes"))
        ValueOf(c) ==
            IF c.kind = "dict"
               /\ DictGet(c, "field", PyNone) = WStr("message_template_status_update")
               /\ DictGet(c, "value", PyNone).kind = "dict"
            THEN DictGet(c, "value", PyNone) ELSE EmptyDict
        Carried(value) ==
            IF Truthy(DictGet(value, "event", PyNone))
               /\ Truthy(DictGet(value, "message_template_id", PyNone))
            THEN value ELSE EmptyDict
    IN  IF change.exc # "" THEN EmptyDict ELSE Carried(ValueOf(change.v))

\* The local templates whose provider id is the id of the event.
TemplatesOfEvent(value) ==
    {n \in DOMAIN templates :
        /\ templates[n].id # ""
        /\ WStr(templates[n].id) = DictGet(value, "message_template_id", PyNone)}

\* C15: a POST whose change has the field 'message_template_status_update'
\* and whose value carries an event and the message_template_id of an
\* existing local template sets the status of that template to the
\* upper-cased event.
C15_TemplateEventApplied ==
    [][IsPost =>
        LET value == TemplateEventOf(calls'[Len(calls')].data)
        IN  \A n \in TemplatesOfEvent(value) :
                templates'[n].status = Upper(PyToStr(DictGet(value, "event", PyNone)))]_vars

\* What holds of C15: the event is applied when the envelope also carries a
\* phone number id that resolves to a WhatsApp Account.
C15_AppliedWithAccount ==
    [][IsPost =>
        LET value == TemplateEventOf(calls'[Len(calls')].data)
        IN  calls'[Len(calls')].resolved # ""
            => \A n \in TemplatesOfEvent(value) :
                   templates'[n].status
                       = Upper(PyToStr(DictGet(value, "event", PyNone)))]_vars

\* The event APPROVED for the template with id 101, sent as the provider
\* sends it, has left the template Pending.
C15_EventDropped ==
    /\ Len(calls) = 1 /\ calls[1].op = "post"
    /\ TemplatesOfEvent(TemplateEventOf(calls[1].data)) = {"t_one"}
    /\ DictGet(TemplateEventOf(calls[1].data), "event", PyNone) = PyStr(Approved)
    /\ calls[1].stage = "no_account" /\ calls[1].raised = ""
    /\ templates["t_one"].status = Pending
    /\ error_logs = <<>>

\* The same event with a phone number id of the account has been applied.
C15_EventApplied ==
    /\ Len(calls) = 1 /\ calls[1].op = "post"
    /\ TemplatesOfEvent(TemplateEventOf(calls[1].data)) = {"t_one"}
    /\ calls[1].stage = "status" /\ calls[1].resolved = "acc1"
    /\ templates["t_one"].status = <<"A", "P", "P", "R", "O", "V", "E", "D">>

(***************************************************************************)
(* C16: a delivery-status event changes one record, and two fields of it.  *)
(***************************************************************************)
\* The first status entry of a delivery-status envelope that carries an id
\* and a status, else the empty dict.
StatusEntryOf(data) ==
    LET change == First(Item(First(Item(Ok(data), "entry")), "changes"))
        entry == First(Item(Item(change, "value"), "statuses"))
    IN  IF /\ FirstChangeMessages(data) = <<>>
           /\ entry.exc = "" /\ entry.v.kind = "dict"
           /\ DictGet(change.v, "field", PyNone) = WStr("messages")
           /\ {"id", "status"} \subseteq DOMAIN entry.v.d
        THEN entry.v ELSE EmptyDict

\* The conversation id the entry carries, None when it carries none.
ConversationOf(entry) ==
    Get(Get(Ok(entry), "conversation", EmptyDict), "id", PyNone).v

ExistingChangedByStatusOnly ==
    /\ Len(whatsapp_messages') >= Len(whatsapp_messages)
    /\ \A k \in 1..Len(whatsapp_messages) :
           whatsapp_messages'[k] # whatsapp_messages[k]
           => /\ IsPost
              /\ calls'[Len(calls')].stage = "status"
              /\ StatusEntryOf(calls'[Len(calls')].data) # EmptyDict
              /\ whatsapp_messages[k].message_id
                     = StatusEntryOf(calls'[Len(calls')].data).d["id"]

\* C17 as stated: a WhatsApp Message record, once created, is written only
\* by a status-update webhook; the handling of inbound messages (media
\* among them) writes to no record that has been inserted.
C17_OnlyStatusUpdatesWrite ==
    [][/\ ExistingChangedByStatusOnly
       /\ IsPost => calls'[Len(calls')].resaved = <<>>]_vars

\* C17, amended: a record created by an earlier operation is written only
\* by the status-update webhook of its message id; the one other write to
\* an inserted record is that of the media handler, which saves the record
\* it has just inserted a second time to set its attachment.
C17_WritesToExisting ==
    [][/\ ExistingChangedByStatusOnly
       /\ IsPost =>
            \A j \in DOMAIN calls'[Len(calls')].resaved :
                \E k \in (Len(whatsapp_messages) + 1)..Len(whatsapp_messages') :
                    /\ whatsapp_messages'[k].message_id = calls'[Len(calls')].resaved[j]
                    /\ whatsapp_messages'[k].content_type \in MediaTypes
                    /\ whatsapp_messages'[k].attach # ""]_vars

\* An image message was stored and saved again with its attachment, then a
\* text message was stored: the records that were there are as they were.
C17_Witness ==
    /\ Len(calls) = 2
    /\ calls[1].op = "post" /\ calls[1].resaved = <<WStr("w7")>>
    /\ calls[2].op = "post" /\ calls[2].stage = "messages" /\ calls[2].created = 1
    /\ Len(whatsapp_messages) = 3
    /\ whatsapp_messages[1].message_id = WStr("m1")
    /\ whatsapp_messages[1].status = PyNone
    /\ whatsapp_messages[2].message_id = WStr("w7")
    /\ whatsapp_messages[2].attach = "/files/hash.ext"
    /\ whatsapp_messages[3].message_id = WStr("w1")

(***************************************************************************)
(* C18: one send is one POST to the provider.                              *)
(***************************************************************************)
\* The number of POSTs the calls up to call i made.
RECURSIVE PostsUpTo(_)
PostsUpTo(i) == IF i = 0 THEN 0 ELSE PostsUpTo(i - 1) + calls[i].posts

\* C18: each invocation of send_template_message for one document, and each
\* contact of send_simple_template, issues at most one POST to the
\* provider's /messages endpoint; a failed POST is not sent again, and no
\* other request is made.
C18_OnePostPerSend ==
    /\ \A i \in 1..Len(calls) : calls[i].posts <= calls[i].attempts
    /\ Len(http) = PostsUpTo(Len(calls))
    /\ \A k \in 1..Len(http) : http[k].method = "POST" /\ http[k].endpoint = "messages"

\* A send whose POST failed with a body that is not JSON made one request;
\* then a simple template went to two contacts with one request each.
C18_Witness ==
    /\ Len(calls) = 2
    /\ calls[1].op = "send_template_message" /\ calls[1].raised = "JSONDecodeError"
    /\ calls[1].attempts = 1 /\ calls[1].posts = 1
    /\ calls[2].op = "send_simple_template"
    /\ calls[2].attempts = 2 /\ calls[2].posts = 2
    /\ Len(http) = 3
    /\ Len(whatsapp_messages) = 2

(***************************************************************************)
(* C19: the text parameters of the payload sent.                           *)
(***************************************************************************)
\* v is a non-empty string with no newline, no tab and no run of 5 or more
\* spaces.
IsSanitizedText(v) ==
    /\ v.kind = "str" /\ v.s # <<>>
    /\ \A i \in 1..Len(v.s) : v.s[i] \notin {"\n", "\r", "\t"}
    /\ ~HasSpaceRun(v.s, MinCollapsedRun)

\* Every text parameter of the components of payload `data` whose type is
\* in `types` is sanitized.
ParametersSanitized(data, types) ==
    \A i \in 1..Len(data.components) :
        data.components[i].type \in types
        => \A j \in 1..Len(data.components[i].parameters) :
               data.components[i].parameters[j].type = "text"
               => IsSanitizedText(data.components[i].parameters[j].text)

\* C19: each parameter of type text in every component of a payload sent
\* by send_template_message (body parameters from the custom script or from
\* the fields table, dynamic URL button parameters) is a non-empty string
\* with no newline, no tab and no run of 5 or more spaces.
C19_TextParametersSanitized ==
    \A k \in 1..Len(http) :
        ParametersSanitized(http[k].data, {"body", "header", "button"})

\* What holds of C19: the body parameters are sanitized.
C19_BodyParametersSanitized ==
    \A k \in 1..Len(http) : ParametersSanitized(http[k].data, {"body"})

\* The payload sent for the order d1 carries its note, with the leading
\* space and the newline, as the parameter of the URL button.
C19_RawButtonParameter ==
    /\ Len(calls) = 1 /\ calls[1].template = "t_url" /\ calls[1].posts = 1
    /\ Len(http) = 1 /\ Len(http[1].data.components) = 2
    /\ http[1].data.components[1].type = "body"
    /\ http[1].data.components[1].parameters[1].text = PyStr(<<"h", "i", " ", "x">>)
    /\ http[1].data.components[2].type = "button"
    /\ http[1].data.components[2].parameters[1].text
           = PyStr(<<" ", "h", "i", "\n", "x">>)

(***************************************************************************)
(* C20: fetch() and the listings of the provider.                          *)
(***************************************************************************)
\* Some local record has the actual name of the listed template and its id,
\* status, language code and category, under the account.
IsReconciled(template, account) ==
    \E n \in DOMAIN templates :
        /\ templates[n].actual_name = template.name
        /\ templates[n].id = template.id
        /\ templates[n].status = template.status
        /\ templates[n].language_code = template.language
        /\ templates[n].category = template.category
        /\ templates[n].whatsapp_account = account

\* C20: when fetch() completes, for every active WhatsApp Account and
\* every template in the listing of that account there is a local record
\* whose actual_name is the listed name and whose id, status, language_code,
\* category and whatsapp_account are the listed values.
C20_EveryListingReconciled ==
    (Len(calls) = 1 /\ calls[1].op = "fetch" /\ calls[1].raised = "")
    => \A i \in 1..Len(calls[1].edit.order) :
           \A k \in 1..Len(calls[1].edit.listings[calls[1].edit.order[i]]) :
               IsReconciled(calls[1].edit.listings[calls[1].edit.order[i]][k],
                            calls[1].edit.order[i])

\* What holds of C20: the listing of the first account is reconciled, for
\* each name by its last entry.
C20_FirstListingReconciled ==
    (Len(calls) = 1 /\ calls[1].op = "fetch" /\ calls[1].raised = ""
     /\ calls[1].edit.order # <<>>)
    => LET account == calls[1].edit.order[1]
           data == calls[1].edit.listings[account]
       IN  /\ Len(http) = 1 /\ http[1].account = account
           /\ \A k \in 1..Len(data) :
                  (\A later \in (k + 1)..Len(data) : data[later].name # data[k].name)
                  => IsReconciled(data[k], account)

\* fetch() has completed with two active accounts: one GET was made, and
\* the template that the second account lists has no local record.
C20_SecondAccountSkipped ==
    /\ Len(calls) = 1 /\ calls[1].op = "fetch" /\ calls[1].raised = ""
    /\ calls[1].edit.order = <<"acc1", "acc2">>
    /\ calls[1].edit.listings["acc1"] = <<>>
    /\ Len(calls[1].edit.listings["acc2"]) = 1
    /\ calls[1].edit.listings["acc2"][1].name = <<"n">>
    /\ Len(http) = 1 /\ http[1].account = "acc1"
    /\ \A n \in DOMAIN templates : templates[n].actual_name # <<"n">>

\* fetch() has completed with one account that lists the name n in two
\* languages: one local record has that name, with the second language.
C20_OneRecordPerName ==
    /\ Len(calls) = 1 /\ calls[1].op = "fetch" /\ calls[1].raised = ""
    /\ calls[1].edit.order = <<"acc1">>
    /\ Len(calls[1].edit.listings["acc1"]) = 2
    /\ calls[1].edit.listings["acc1"][1].name = <<"n">>
    /\ calls[1].edit.listings["acc1"][2].name = <<"n">>
    /\ "t_f1" \in DOMAIN templates /\ "t_f2" \notin DOMAIN templates
    /\ templates["t_f1"].id = "202"
    /\ templates["t_f1"].language_code = <<"p", "t", "_", "B", "R">>

\* fetch() has written a new template with every kind of component.
C20_FetchedFull ==
    /\ Len(calls) = 1 /\ calls[1].op = "fetch"
    /\ "t_f1" \in DOMAIN templates
    /\ templates["t_f1"].header = <<"h">> /\ templates["t_f1"].footer = <<"f">>
    /\ templates["t_f1"].sample_values = <<"x", ",", "y">>
    /\ Len(templates["t_f1"].buttons) = 3
    /\ templates["t_f1"].buttons[1].url_type = "Dynamic"
    /\ templates["t_f1"].buttons[2].url_type = "Static"
    /\ templates["t_f1"].buttons[3].button_type = "Quick Reply"

(***************************************************************************)
(* C21: the name sent in the create request.                               *)
(***************************************************************************)
\* The create requests among the requests of call i.
CreateRequestsOf(i) == RequestsTo(calls[i].requests, "create_template")

\* C21: whenever after_insert sends a create request, the name it sends
\* matches ^[a-z][a-z0-9_]*$, for every template_name and user-supplied
\* actual_name that pass validate.
C21_CreatedNameAllowed ==
    \A i \in 1..Len(calls) :
        calls[i].op = "after_insert"
        => \A k \in 1..Len(CreateRequestsOf(i)) :
               MatchesTemplateName(CreateRequestsOf(i)[k].data.name)

\* What holds of C21: the name sent matches when the user supplied no
\* actual_name, so that it comes from the template_name validate checked.
C21_DerivedNameAllowed ==
    \A i \in 1..Len(calls) :
        (calls[i].op = "after_insert" /\ calls[i].edit.typed_name = <<>>)
        => \A k \in 1..Len(CreateRequestsOf(i)) :
               MatchesTemplateName(CreateRequestsOf(i)[k].data.name)

\* The template named "a" with the user-supplied actual_name "1" passed
\* validate and was sent to the provider under the name "_1".
C21_UnderscoreNameSent ==
    /\ Len(calls) = 1 /\ calls[1].op = "after_insert"
    /\ calls[1].edit.typed_name = <<"1">>
    /\ calls[1].doc.template_name = <<"a">>
    /\ Len(http) = 2 /\ http[2].endpoint = "create_template"
    /\ http[2].data.name = <<"_", "1">>

\* The user-supplied actual_name "A b" was sent as "a_b".
C21_SuppliedNameSanitized ==
    /\ Len(calls) = 1 /\ calls[1].op = "after_insert"
    /\ calls[1].edit.typed_name = <<"A", " ", "b">>
    /\ Len(http) = 2 /\ http[2].endpoint = "create_template"
    /\ http[2].data.name = <<"a", "_", "b">>

(***************************************************************************)
(* C22: the Outgoing record and the POST of its send.                      *)
(***************************************************************************)
\* What the provider answered to each POST so far, in the order of http.
RECURSIVE AnswersUpTo(_)
AnswersUpTo(i) == IF i = 0 THEN <<>> ELSE AnswersUpTo(i - 1) \o calls[i].answers

\* The Outgoing records that carry the message id the provider gave for
\* the k-th POST (the model's provider names a message by that k).
RecordsOfPost(k) ==
    {i \in 1..Len(whatsapp_messages) :
        /\ whatsapp_messages[i].type = "Outgoing"
        /\ whatsapp_messages[i].message_id = k}

\* C22: an Outgoing WhatsApp Message record is created if and only if the
\* POST of that send succeeded; it is created after the POST and carries
\* the message id the provider returned; a failed POST creates no record.
C22_RecordIffPosted ==
    /\ Len(AnswersUpTo(Len(calls))) = Len(http)
    /\ \A i \in 1..Len(whatsapp_messages) :
           whatsapp_messages[i].message_id \in 1..Len(http)
    /\ \A k \in 1..Len(http) :
           /\ AnswersUpTo(Len(calls))[k] = "ok" => Cardinality(RecordsOfPost(k)) = 1
           /\ AnswersUpTo(Len(calls))[k] # "ok" => RecordsOfPost(k) = {}

\* What holds of C22: every record belongs to one POST that succeeded and
\* carries its message id and its recipient, a failed POST has no record,
\* and a POST that succeeded has its record when the first component of
\* the payload has only text parameters.
C22_RecordOnlyIfPosted ==
    /\ Len(AnswersUpTo(Len(calls))) = Len(http)
    /\ \A i \in 1..Len(whatsapp_messages) :
           /\ whatsapp_messages[i].message_id \in 1..Len(http)
           /\ whatsapp_messages[i].to = http[whatsapp_messages[i].message_id].data.to
    /\ \A k \in 1..Len(http) :
           /\ Cardinality(RecordsOfPost(k)) <= 1
           /\ AnswersUpTo(Len(calls))[k] # "ok" => RecordsOfPost(k) = {}
           /\ ( /\ AnswersUpTo(Len(calls))[k] = "ok"
                /\ \/ http[k].data.components = <<>>
                   \/ http[k].data.components[1].type = "body" )
              => Cardinality(RecordsOfPost(k)) = 1

\* A template with a DOCUMENT header and no body parameter was sent, the
\* provider accepted it and named the message, and no record was saved.
C22_SentWithoutRecord ==
    /\ Len(calls) = 1 /\ calls[1].op = "send_template_message"
    /\ calls[1].template = "t_doc" /\ calls[1].answers = <<"ok">>
    /\ calls[1].raised = ""
    /\ Len(http) = 1 /\ Len(http[1].data.components) = 1
    /\ http[1].data.components[1].type = "header"
    /\ whatsapp_messages = <<>>
    /\ Len(notification_logs) = 1
    /\ "error" \in DOMAIN notification_logs[1].meta_data

(***************************************************************************)
(* C23: the field of the source document set after a send.                 *)
(***************************************************************************)
\* C23: the field named by set_property_after_alert is written on the
\* source document only when the POST succeeded and the Outgoing message
\* record was saved; a send that failed leaves the source documents as
\* they were, and nothing but that field of that document is written.
C23_PropertySetAfterSend ==
    [][source_docs' # source_docs =>
        /\ Len(calls') = Len(calls) + 1
        /\ calls'[Len(calls')].answers = <<"ok">>
        /\ Len(whatsapp_messages') = Len(whatsapp_messages) + 1
        /\ \E n \in DOMAIN source_docs :
               /\ whatsapp_messages'[Len(whatsapp_messages')].reference_name = n
               /\ whatsapp_messages'[Len(whatsapp_messages')].message_id = Len(http')
               /\ source_docs' = [source_docs EXCEPT ![n].fields.sent = PyInt(1)]]_vars

\* The rule that sets `sent` has been run on the order d1: the message was
\* sent and recorded, and the field is 1.
C23_Witness ==
    /\ Len(calls) = 1 /\ calls[1].answers = <<"ok">>
    /\ Len(whatsapp_messages) = 1
    /\ whatsapp_messages[1].reference_name = "d1"
    /\ source_docs["d1"].fields.sent = PyInt(1)
    /\ source_docs["d2"].fields.sent = PyInt(0)

(***************************************************************************)
(* C24: a rule that does not apply.                                        *)
(***************************************************************************)
\* The rule of a call does not apply to its document: it is disabled, or
\* it has a condition, ignore_condition is not set and the condition is
\* false for the document.
DoesNotApply(call) ==
    \/ call.self.disabled
    \/ /\ call.self.condition # ""
       /\ ~call.ignore_condition
       /\ ~Truthy(source_docs[call.doc].fields.ok)

\* C24: when the notification rule is disabled, or its condition is false
\* for the document and ignore_condition is not set, send_template_message
\* makes no HTTP call and creates no WhatsApp Message, no WhatsApp
\* Notification Log (and no other write).
C24_NothingSentWhenNotApplicable ==
    [][(/\ Len(calls') = Len(calls) + 1
        /\ calls'[Len(calls')].op = "send_template_message"
        /\ DoesNotApply(calls'[Len(calls')]))
       => /\ calls'[Len(calls')].posts = 0
          /\ UNCHANGED <<http, whatsapp_messages, notification_logs,
                         error_logs, source_docs>>]_vars

\* Both cases have happened: a disabled rule was run, and a rule whose
\* condition is false for the order d2.
C24_Witness ==
    /\ Len(calls) = 2
    /\ calls[1].op = "send_template_message" /\ calls[1].self.disabled
    /\ calls[2].op = "send_template_message" /\ ~calls[2].self.disabled
    /\ calls[2].self.condition # "" /\ ~calls[2].ignore_condition
    /\ calls[2].doc = "d2"
    /\ http = <<>> /\ whatsapp_messages = <<>> /\ notification_logs = <<>>

\* With ignore_condition the same rule and document do send.
C24_SentWithIgnoreCondition ==
    /\ Len(calls) = 1 /\ calls[1].op = "send_template_message"
    /\ calls[1].ignore_condition
    /\ calls[1].self.condition # "" /\ calls[1].doc = "d2"
    /\ Len(http) = 1 /\ Len(whatsapp_messages) = 1

(***************************************************************************)
(* C25: the documents of the daily sweep.                                  *)
(***************************************************************************)
\* The (rule, document) pairs a sweep is to process: the enabled rules of
\* the table whose event is Days Before or Days After, each with the
\* documents of its reference doctype whose date field lies on the day
\* today + N (Days Before) or today - N (Days After).
DueOfSweep(call) ==
    {p \in (1..Len(call.rules)) \X DOMAIN source_docs :
        LET rule == call.rules[p[1]]
            doc == source_docs[p[2]]
        IN  /\ ~rule.disabled
            /\ rule.doctype_event \in {"Days Before", "Days After"}
            /\ doc.doctype = rule.reference_doctype
            /\ rule.date_changed \in DOMAIN doc.fields
            /\ doc.fields[rule.date_changed].day =
                   IF rule.doctype_event = "Days Before"
                   THEN call.today + rule.days_in_advance
                   ELSE call.today - rule.days_in_advance}

\* The (rule, document) pairs a sweep handed to send_template_message.
SentOfSweep(call) ==
    {<<call.sends[k].rule, call.sends[k].doc>> : k \in 1..Len(call.sends)}

\* C25: trigger_notifications("daily") calls send_template_message once
\* for every enabled Days Before / Days After rule and every document whose
\* date field lies on the rule's day, for no other rule or document, and
\* for none during import or patch.
C25_SweepSelectsExactly ==
    \A i \in 1..Len(calls) :
        (calls[i].op = "trigger_notifications" /\ calls[i].method = "daily") =>
            IF calls[i].in_import \/ calls[i].in_patch
            THEN calls[i].sends = <<>>
            ELSE /\ SentOfSweep(calls[i]) = DueOfSweep(calls[i])
                 /\ Len(calls[i].sends) = Cardinality(DueOfSweep(calls[i]))

\* What does hold: a sweep sends for no rule or document outside the due
\* pairs, for none twice, and for none during import or patch or for
\* another method.
C25_SweepSelectsOnlyDue ==
    \A i \in 1..Len(calls) :
        calls[i].op = "trigger_notifications" =>
            /\ SentOfSweep(calls[i]) \subseteq DueOfSweep(calls[i])
            /\ Len(calls[i].sends) = Cardinality(SentOfSweep(calls[i]))
            /\ (calls[i].in_import \/ calls[i].in_patch
                \/ calls[i].method # "daily") => calls[i].sends = <<>>

\* A sweep that ran to its end without an exception passed over the order
\* d1, due on the rule's day at 23:59:59.5.
C25_LateDocumentMissed ==
    /\ Len(calls) = 1 /\ calls[1].op = "trigger_notifications"
    /\ calls[1].raised = ""
    /\ source_docs["d1"].fields.due = [day |-> 2, ms |-> 86399500]
    /\ <<1, "d1">> \in DueOfSweep(calls[1])
    /\ SentOfSweep(calls[1]) = {<<1, "d2">>}

\* A sweep ended by the exception of its first rule: the second rule, with
\* both orders due at or before 23:59:59, was not processed.
C25_SweepAborted ==
    /\ Len(calls) = 1 /\ calls[1].op = "trigger_notifications"
    /\ calls[1].raised = "ValidationError"
    /\ source_docs["d1"].fields.due = [day |-> 2, ms |-> 43200000]
    /\ {<<2, "d1">>, <<2, "d2">>} \subseteq DueOfSweep(calls[1])
    /\ \A k \in 1..Len(calls[1].sends) : calls[1].sends[k].rule = 1

\* A full sweep: every due pair was sent once, with a POST for d1.
C25_SweepComplete ==
    /\ Len(calls) = 1 /\ calls[1].op = "trigger_notifications"
    /\ calls[1].sends = <<[rule |-> 1, doc |-> "d1"], [rule |-> 1, doc |-> "d2"]>>
    /\ SentOfSweep(calls[1]) = DueOfSweep(calls[1])
    /\ Len(http) = 1 /\ Len(whatsapp_messages) = 1

(***************************************************************************)
(* C26: a delivery-status event racing with the send.                      *)
(***************************************************************************)
\* Both requests have finished: the send has committed a record for m2
\* and the status event was handled for an account.
BothFinished ==
    /\ pc = "done"
    /\ \E i \in 1..Len(calls) : calls[i].op = "post" /\ calls[i].resolved # ""
    /\ MessagesWithId(WStr("m2")) # {}

\* The status the event carries.
StatusOfEvent(call) ==
    Item(First(Item(Item(First(Item(First(Item(Ok(call.data), "entry")), "changes")),
                         "value"), "statuses")), "status").v

\* C26: a delivery-status event handled by a concurrent request after the
\* POST returned and before notify has saved and committed the Outgoing
\* WhatsApp Message is still applied to the record once both requests
\* have finished.
C26_StatusAppliedAfterRace ==
    BothFinished =>
        \A i \in 1..Len(calls) : \A k \in MessagesWithId(WStr("m2")) :
            (calls[i].op = "post" /\ calls[i].resolved # "") =>
                whatsapp_messages[k].status = StatusOfEvent(calls[i])

\* What does hold: an event handled after the commit is applied.
C26_StatusAppliedAfterCommit ==
    BothFinished =>
        \A i \in 1..Len(calls) : \A k \in MessagesWithId(WStr("m2")) :
            (calls[i].op = "post" /\ calls[i].resolved # ""
             /\ calls[i].during = "done") =>
                /\ calls[i].raised = ""
                /\ whatsapp_messages[k].status = StatusOfEvent(calls[i])

\* The race: the event was handled between the POST and the commit, its
\* request raised DoesNotExistError, and the committed record has no
\* status.
C26_StatusLost ==
    /\ BothFinished
    /\ Len(calls) = 2 /\ calls[1].op = "post" /\ calls[1].during = "posted"
    /\ calls[1].raised = "DoesNotExistError"
    /\ \A k \in MessagesWithId(WStr("m2")) : whatsapp_messages[k].status = PyNone

\* The event after the commit: the record has the status.
C26_StatusKept ==
    /\ BothFinished
    /\ Len(calls) = 2 /\ calls[2].op = "post" /\ calls[2].during = "done"
    /\ \A k \in MessagesWithId(WStr("m2")) :
           whatsapp_messages[k].status = WStr("delivered")

(***************************************************************************)
(* C27: the body parameters of a rule with a fields table.                 *)
(***************************************************************************)
\* Call i ran send_template_message for a rule with a fields table and no
\* custom script, as far as the parameters or further.
BuiltFromFields(i) ==
    /\ calls[i].op = "send_template_message"
    /\ calls[i].self.template_data_script = ""
    /\ calls[i].self.fields # <<>>
    /\ calls[i].stage \in {"parameters", "header", "account", "posted"}

\* The body parameters of the POST of call i are one per row, in row
\* order: the text of the row, "-" for a row that raises.
OneParameterPerRow(i) ==
    LET fields == calls[i].self.fields
        data == http[PostsUpTo(i)].data
    IN  /\ data.components # <<>>
        /\ data.components[1].type = "body"
        /\ data.components[1].parameters =
               [k \in 1..Len(fields) |->
                   TextParameter(PyStr(FieldRowText(fields[k],
                                                    source_docs[calls[i].doc])))]

\* C27: with a fields table and no custom script the body parameter list
\* has exactly one entry per row, in row order; a row whose lookup or
\* expression raises contributes "-" and keeps neither the other rows
\* from being resolved nor the message from being sent.
C27_RowErrorsContained ==
    \A i \in 1..Len(calls) :
        BuiltFromFields(i) =>
            /\ calls[i].stage # "parameters"
            /\ calls[i].posts = 1 => OneParameterPerRow(i)

\* What does hold: every message that such a rule sends has one body
\* parameter per row, in row order, with "-" for the rows that raised.
C27_SentWithOneParameterPerRow ==
    \A i \in 1..Len(calls) :
        (BuiltFromFields(i) /\ calls[i].posts = 1) => OneParameterPerRow(i)

\* A row without field name whose expression is None: the except block
\* raised TypeError and nothing was sent.
C27_RowAbortsSend ==
    /\ Len(calls) = 1 /\ BuiltFromFields(1)
    /\ calls[1].stage = "parameters" /\ calls[1].raised = "TypeError"
    /\ Len(calls[1].self.fields) = 3
    /\ http = <<>> /\ whatsapp_messages = <<>>
    /\ error_logs = <<"Error processing field">>

\* Four rows, two of them raising an exception that is caught: sent with
\* four parameters, "-" in the places of the two.
C27_PlaceholdersSent ==
    /\ Len(calls) = 1 /\ BuiltFromFields(1) /\ calls[1].posts = 1
    /\ Len(calls[1].self.fields) = 4
    /\ OneParameterPerRow(1)
    /\ http[1].data.components[1].parameters[2].text = PyStr(<<"-">>)
    /\ http[1].data.components[1].parameters[3].text = PyStr(<<"-">>)
    /\ http[1].data.components[1].parameters[4].text # PyStr(<<"-">>)
    /\ Len(error_logs) = 2

(***************************************************************************)
(* C28: the provider id of a template record.                              *)
(***************************************************************************)
\* In this step no record that has a provider id gets another one.
IdsKept ==
    \A n \in DOMAIN templates \cap DOMAIN templates' :
        templates[n].id # "" => templates'[n].id = templates[n].id

\* C28: once a template has a non-empty provider id, no operation (save,
\* after_insert sync, status webhook with name fallback, fetch) changes it
\* to a different id.
C28_IdNeverChanges == [][IdsKept]_vars

\* What does hold: every operation but fetch keeps the ids.
C28_IdKeptButByFetch ==
    [][(calls' # calls /\ calls'[Len(calls')].op # "fetch") => IdsKept]_vars

\* A fetch gave t_media, registered under the id 102 and found by its
\* name, the id of the listing of that name.
C28_IdReplacedByFetch ==
    /\ Len(calls) = 1 /\ calls[1].op = "fetch" /\ calls[1].raised = ""
    /\ templates["t_media"].actual_name = <<"b">>
    /\ templates["t_media"].id = "302"

(***************************************************************************)
(* C29: the templates a template status event leaves alone.                *)
(***************************************************************************)
\* The value of the first change of the envelope when its field is
\* 'message_template_status_update', else the empty dict.
TemplateStatusValueOf(data) ==
    LET change == First(Item(First(Item(Ok(data), "entry")), "changes"))
    IN  IF /\ change.exc = "" /\ change.v.kind = "dict"
           /\ DictGet(change.v, "field", PyNone) = WStr("message_template_status_update")
           /\ DictGet(change.v, "value", PyNone).kind = "dict"
        THEN DictGet(change.v, "value", PyNone) ELSE EmptyDict

\* The templates the event identifies: those with its id, or, when there
\* is none, those with its message_template_name; none when the event or
\* the id is missing.
TemplatesMatched(value) ==
    LET event == DictGet(value, "event", PyNone)
        id == DictGet(value, "message_template_id", PyNone)
        name == DictGet(value, "message_template_name", PyNone)
        Named == {n \in DOMAIN templates : PyStr(templates[n].actual_name) = name}
    IN  IF ~Truthy(event) \/ ~Truthy(id) THEN {}
        ELSE IF TemplatesOfEvent(value) # {} THEN TemplatesOfEvent(value)
        ELSE Named

\* C29: update_template_status never raises; when the event or the id is
\* missing, or no local template has the id and none has the
\* message_template_name, the status and the id of every local template
\* are unchanged; when a template is matched, only the templates with that
\* id (or, in the fallback, that actual_name) get the new status.
C29_OnlyMatchedTemplatesChange ==
    [][(IsPost /\ TemplateStatusValueOf(calls'[Len(calls')].data) # EmptyDict) =>
        LET value == TemplateStatusValueOf(calls'[Len(calls')].data)
        IN  /\ calls'[Len(calls')].raised = ""
            /\ DOMAIN templates' = DOMAIN templates
            /\ \A n \in DOMAIN templates \ TemplatesMatched(value) :
                   /\ templates'[n].status = templates[n].status
                   /\ templates'[n].id = templates[n].id
            /\ \A n \in TemplatesMatched(value) :
                   /\ templates'[n].status
                          \in {templates[n].status,
                               Upper(PyToStr(DictGet(value, "event", PyNone)))}
                   /\ templates[n].id # "" => templates'[n].id = templates[n].id]_vars

\* All three cases have happened: an event by id has set the status of
\* t_one alone, and an event that names no local template has changed
\* nothing and was logged.
C29_Witness ==
    /\ Len(calls) = 2 /\ calls[1].op = "post" /\ calls[2].op = "post"
    /\ calls[1].resolved = "acc1" /\ calls[2].resolved = "acc1"
    /\ TemplatesOfEvent(TemplateStatusValueOf(calls[1].data)) = {"t_one"}
    /\ DictGet(TemplateStatusValueOf(calls[2].data), "message_template_name", PyNone)
           = PyStr(<<"z">>)
    /\ templates["t_one"].status = Approved
    /\ templates["t_other"].status = Approved
    /\ templates["t_local"].status = <<>> /\ templates["t_local"].id = ""
    /\ error_logs = <<"Template status update error">>

\* The fallback: the event REJECTED for the id 999 and the name promo has
\* given t_local, which had no id, the status and the id.
C29_MatchedByName ==
    /\ Len(calls) = 1 /\ calls[1].op = "post"
    /\ templates["t_local"].status = Rejected /\ templates["t_local"].id = "999"
    /\ templates["t_one"].status = Pending /\ templates["t_other"].status = Approved

(***************************************************************************)
(* C30: one Incoming record per provider message id.                       *)
(***************************************************************************)
\* C30: after any sequence of webhook POSTs, the same envelope delivered
\* twice included, there is at most one Incoming WhatsApp Message record
\* per provider message id.
C30_OneIncomingPerMessageId ==
    \A i, j \in 1..Len(whatsapp_messages) :
        (/\ whatsapp_messages[i].type = "Incoming"
         /\ whatsapp_messages[j].type = "Incoming"
         /\ whatsapp_messages[i].message_id = whatsapp_messages[j].message_id)
        => i = j

\* What does hold: the records of one POST have distinct message ids.
C30_OnePerIdWithinPost ==
    [][IsPost =>
        \A i, j \in (Len(whatsapp_messages) + 1)..Len(whatsapp_messages') :
            whatsapp_messages'[i].message_id = whatsapp_messages'[j].message_id
                => i = j]_vars

\* The envelope with the text message w1 was delivered twice and recorded
\* twice.
C30_RecordedTwice ==
    /\ Len(calls) = 2 /\ calls[1].op = "post" /\ calls[2].op = "post"
    /\ calls[1].data = calls[2].data
    /\ calls[1].raised = "" /\ calls[2].raised = ""
    /\ Len(whatsapp_messages) = 3
    /\ whatsapp_messages[2].type = "Incoming"
    /\ whatsapp_messages[3].type = "Incoming"
    /\ whatsapp_messages[2].message_id = WStr("w1")
    /\ whatsapp_messages[3] = whatsapp_messages[2]

=============================================================================
